---- MODULE Spec2Model ----
(***************************************************************************)
(* A model of llmify: the tree picker of src/src/ui.ts (the webview script *)
(* with its tri-state checkboxes, and the host side showTreePicker), the   *)
(* llmify.openPicker command of src/src/extension.ts, and the indexing and *)
(* markdown functions of src/src/fileSystem.ts.                            *)
(*                                                                         *)
(* Strings are sequences of one-character strings, so that path.dirname,   *)
(* path.basename, startsWith and the two sort orders of the code           *)
(* (localeCompare and the default code-unit sort) are computed on the      *)
(* characters.  Paths are POSIX paths (path.sep = "/").                    *)
(***************************************************************************)
EXTENDS Integers, Sequences, FiniteSets, TLC

(***************************************************************************)
(* Characters and the two orders on strings                                *)
(***************************************************************************)
Lowers == <<"a","b","c","d","e","f","g","h","i","j","k","l","m",
            "n","o","p","q","r","s","t","u","v","w","x","y","z">>
Uppers == <<"A","B","C","D","E","F","G","H","I","J","K","L","M",
            "N","O","P","Q","R","S","T","U","V","W","X","Y","Z">>
Digits == <<"0","1","2","3","4","5","6","7","8","9">>
\* punctuation of the model's alphabet, in the order of the root collation
Puncts == <<"_","-",".","(",")","/">>

Range(s) == {s[i] : i \in 1..Len(s)}
IndexIn(s, c) == CHOOSE i \in 1..Len(s) : s[i] = c

Alphabet == Range(Lowers) \cup Range(Uppers) \cup Range(Digits) \cup Range(Puncts)

\* primary collation weight: punctuation < digits < letters, case ignored
PrimaryWeightTable ==
  [c \in Alphabet |->
     IF c \in Range(Puncts) THEN IndexIn(Puncts, c)
     ELSE IF c \in Range(Digits) THEN 10 + IndexIn(Digits, c)
     ELSE IF c \in Range(Lowers) THEN 20 + IndexIn(Lowers, c)
     ELSE 20 + IndexIn(Uppers, c)]

\* tertiary collation weight: lower case before upper case
TertiaryWeightTable == [c \in Alphabet |-> IF c \in Range(Uppers) THEN 1 ELSE 0]

\* UTF-16 code units, the order of Array.prototype.sort() without comparator
CodeUnitTable ==
  [c \in Alphabet |->
     IF c = "(" THEN 40 ELSE IF c = ")" THEN 41
     ELSE IF c = "-" THEN 45 ELSE IF c = "." THEN 46 ELSE IF c = "/" THEN 47
     ELSE IF c = "_" THEN 95
     ELSE IF c \in Range(Digits) THEN 47 + IndexIn(Digits, c)
     ELSE IF c \in Range(Uppers) THEN 64 + IndexIn(Uppers, c)
     ELSE 96 + IndexIn(Lowers, c)]

\* lexicographic comparison of two strings by a weight table: -1, 0 or 1
RECURSIVE CompareBy(_, _, _)
CompareBy(w, a, b) ==
  IF a = <<>> THEN (IF b = <<>> THEN 0 ELSE -1)
  ELSE IF b = <<>> THEN 1
  ELSE IF w[Head(a)] < w[Head(b)] THEN -1
  ELSE IF w[Head(a)] > w[Head(b)] THEN 1
  ELSE CompareBy(w, Tail(a), Tail(b))

\* a.localeCompare(b): primary weights of the whole strings first, then case
localeCompare(a, b) ==
  LET p == CompareBy(PrimaryWeightTable, a, b)
  IN  IF p # 0 THEN p ELSE CompareBy(TertiaryWeightTable, a, b)

\* the order of Array.prototype.sort() with no comparator
codeUnitCompare(a, b) == CompareBy(CodeUnitTable, a, b)

(***************************************************************************)
(* Node's path module, POSIX flavour, on normalized relative paths         *)
(***************************************************************************)
sep == "/"

\* index of the last separator of p, 0 when there is none
LastSep(p) ==
  IF \E i \in 1..Len(p) : p[i] = sep
  THEN CHOOSE i \in 1..Len(p) : p[i] = sep /\ \A j \in (i+1)..Len(p) : p[j] # sep
  ELSE 0

\* path.dirname: "." for a path without separator
dirname(p) ==
  IF LastSep(p) = 0 THEN <<".">>
  ELSE IF LastSep(p) = 1 THEN <<sep>>
  ELSE SubSeq(p, 1, LastSep(p) - 1)

\* path.basename
basename(p) == SubSeq(p, LastSep(p) + 1, Len(p))

\* s.startsWith(prefix)
startsWith(s, prefix) ==
  Len(prefix) <= Len(s) /\ SubSeq(s, 1, Len(prefix)) = prefix

\* path.relative(from, to) for a file `to` below the directory `from`
relative(from, to) ==
  IF startsWith(to, from \o <<sep>>) THEN SubSeq(to, Len(from) + 2, Len(to))
  ELSE to

\* path.join(a, b) of two normalized non-empty parts
join(a, b) == a \o <<sep>> \o b

\* s.split(path.sep)
RECURSIVE split(_)
split(s) ==
  IF \E i \in 1..Len(s) : s[i] = sep
  THEN LET i == CHOOSE k \in 1..Len(s) : s[k] = sep /\ \A j \in 1..(k-1) : s[j] # sep
       IN  <<SubSeq(s, 1, i - 1)>> \o split(SubSeq(s, i + 1, Len(s)))
  ELSE <<s>>

(***************************************************************************)
(* Workspace items and tree nodes                                          *)
(***************************************************************************)
\* WorkspaceItem (fileSystem.ts): the uri is the opaque handle of the path
FileItem(p) == [type |-> "file", relativePath |-> p]
FolderItem(p) == [type |-> "folder", relativePath |-> p]

\* TreeNode (ui.ts); the children of a folder node are kept in the tree's
\* children map, under the folder's path
TreeNode(item) ==
  [name |-> basename(item.relativePath), path |-> item.relativePath, type |-> item.type]

\* the comparator of sortChildren: folders first, then by name
nodeCompare(a, b) ==
  IF a.type = "folder" /\ b.type = "file" THEN -1
  ELSE IF a.type = "file" /\ b.type = "folder" THEN 1
  ELSE localeCompare(a.name, b.name)

\* the key of the root bucket of buildFileTree
ROOT_KEY == <<"(","r","o","o","t",")">>

\* the comparator of sortedDirs: (root) first, then localeCompare
dirCompare(a, b) ==
  IF a = ROOT_KEY THEN -1
  ELSE IF b = ROOT_KEY THEN 1
  ELSE localeCompare(a, b)

\* the comparators handed to Array.prototype.sort in the code
Compare(kind, a, b) ==
  CASE kind = "locale" -> localeCompare(a, b)
    [] kind = "codeUnit" -> codeUnitCompare(a, b)
    [] kind = "itemPath" -> localeCompare(a.relativePath, b.relativePath)
    [] kind = "node" -> nodeCompare(a, b)
    [] kind = "dir" -> dirCompare(a, b)

(***************************************************************************)
(* Array.prototype.sort and Array.prototype.filter.  They are written      *)
(* without recursion over the elements, so that lists of some fifty        *)
(* elements are evaluated in bounded depth.                                *)
(***************************************************************************)
\* the elements of s at the positions pos, in the order of s
AtPositions(s, pos) ==
  [k \in 1..Cardinality(pos) |->
     s[CHOOSE i \in pos : Cardinality({j \in pos : j <= i}) = k]]

\* s.filter(x => keep.has(x))
FilterSeq(s, keep) == AtPositions(s, {i \in 1..Len(s) : s[i] \in keep})

\* the sequence in which the element x of S stands at rank[x]
Ranked(S, rank) == [k \in 1..Cardinality(S) |-> CHOOSE x \in S : rank[x] = k]

\* s.sort(comparator): a stable sort puts s[j] before another element s[i]
\* when it compares less, or equal and j < i
Sort(kind, s) ==
  LET order == Ranked(1..Len(s),
                      [i \in 1..Len(s) |->
                         Cardinality({j \in (1..Len(s)) \ {i} :
                            \/ Compare(kind, s[j], s[i]) < 0
                            \/ (Compare(kind, s[j], s[i]) = 0 /\ j < i)}) + 1])
  IN  [k \in 1..Len(s) |-> s[order[k]]]

\* the sorted sequence of a set of strings no two of which compare equal:
\* the result of sort on any enumeration of the set
SortSet(kind, S) ==
  Ranked(S, [x \in S |-> Cardinality({y \in S \ {x} : Compare(kind, y, x) < 0}) + 1])

\* s.map(f) for f given as a function
MapSeq(f, s) == [i \in 1..Len(s) |-> f[s[i]]]

(***************************************************************************)
(* fileSystem.ts: discovery and indexing                                   *)
(***************************************************************************)
workspaceRoot == <<"/","w">>

fsPath(rel) == join(workspaceRoot, rel)

\* discoverWorkspaceFiles: what findFiles found, sorted by fsPath
discoverWorkspaceFiles(found) ==
  SortSet("locale", {fsPath(rel) : rel \in found})

\* the cumulative prefixes of the directory parts: a, a/b, a/b/c
RECURSIVE Prefixes(_, _)
Prefixes(currentPath, parts) ==
  IF parts = <<>> THEN {}
  ELSE LET next == IF currentPath # <<>> THEN join(currentPath, Head(parts))
                   ELSE Head(parts)
       IN  {next} \cup Prefixes(next, Tail(parts))

\* a variant that adds the containing directory of each file only
extractFolderPathsDirectOnly(files, root) ==
  LET dirOf(f) == dirname(relative(root, f))
      folderSet == {dirOf(files[i]) : i \in {j \in 1..Len(files) :
                      dirOf(files[j]) # <<>> /\ dirOf(files[j]) # <<".">>}}
  IN  SortSet("codeUnit", folderSet)

\* extractFolderPaths: the ancestors of every file, sorted by code units
extractFolderPaths(files, root) ==
  LET dirOf(f) == dirname(relative(root, f))
      folderSet == UNION {IF dirOf(files[i]) # <<>> /\ dirOf(files[i]) # <<".">>
                          THEN Prefixes(<<>>, split(dirOf(files[i])))
                          ELSE {} : i \in 1..Len(files)}
  IN  SortSet("codeUnit", folderSet)

\* buildWorkspaceItems: folders first, then the files in discovery order
buildWorkspaceItems(found) ==
  LET files == discoverWorkspaceFiles(found)
      folders == extractFolderPaths(files, workspaceRoot)
  IN  [i \in 1..Len(folders) |-> FolderItem(folders[i])]
      \o [i \in 1..Len(files) |-> FileItem(relative(workspaceRoot, files[i]))]

\* items.filter(i => i.type === t)
ItemsOfType(items, t) ==
  FilterSeq(items, {items[i] : i \in {j \in 1..Len(items) : items[j].type = t}})

(***************************************************************************)
(* fileSystem.ts: expandFolderSelections                                   *)
(***************************************************************************)
\* the paths of resultSet: the selected files, and for a selected folder the
\* file items below its folderPrefix or with the path of the folder;
\* prefixes[i] is the folderPrefix of selectedItems[i]
resultSet(selectedItems, fileItems_, prefixes) ==
  {selectedItems[i].relativePath : i \in {j \in 1..Len(selectedItems) :
                                            selectedItems[j].type = "file"}}
  \cup {fileItems_[k].relativePath : k \in {n \in 1..Len(fileItems_) :
           \E i \in 1..Len(selectedItems) :
             /\ selectedItems[i].type # "file"
             /\ \/ startsWith(fileItems_[n].relativePath, prefixes[i])
                \/ fileItems_[n].relativePath = selectedItems[i].relativePath}}

\* a variant whose folder prefix lacks the separator
expandFolderSelectionsNoSeparator(selectedItems, allItems_) ==
  LET fileItems_ == ItemsOfType(allItems_, "file")
      prefixes == [i \in 1..Len(selectedItems) |-> selectedItems[i].relativePath]
      rs == resultSet(selectedItems, fileItems_, prefixes)
  IN  Sort("itemPath", FilterSeq(fileItems_, {x \in Range(fileItems_) : x.relativePath \in rs}))

\* a variant that expands the folders and forgets the files selected as files
expandFolderSelectionsFoldersOnly(selectedItems, allItems_) ==
  LET fileItems_ == ItemsOfType(allItems_, "file")
      folders == ItemsOfType(selectedItems, "folder")
      prefixes == [i \in 1..Len(folders) |-> folders[i].relativePath \o <<sep>>]
      rs == resultSet(folders, fileItems_, prefixes)
  IN  Sort("itemPath", FilterSeq(fileItems_, {x \in Range(fileItems_) : x.relativePath \in rs}))

\* expandFolderSelections: the file items of allItems in resultSet, sorted
\* by relativePath with localeCompare
expandFolderSelections(selectedItems, allItems_) ==
  LET fileItems_ == ItemsOfType(allItems_, "file")
      folderPrefix == [i \in 1..Len(selectedItems) |->
                         selectedItems[i].relativePath \o <<sep>>]
      rs == resultSet(selectedItems, fileItems_, folderPrefix)
  IN  Sort("itemPath", FilterSeq(fileItems_, {x \in Range(fileItems_) : x.relativePath \in rs}))

(***************************************************************************)
(* ui.ts: buildTree                                                        *)
(***************************************************************************)
\* The two passes of buildTree.  A node is pushed to the roots when the
\* dirname of its path is "." or empty, and to the children of its parent
\* when nodeMap holds the parent at that moment: for a folder, when the
\* parent comes earlier in the sorted folders; for a file, when the parent is
\* a folder item at all.  The folder nodes are pushed in the order of the
\* first pass, before the file nodes in the order of the second.
isRootPath(parentPath) == parentPath = <<".">> \/ parentPath = <<>>

attachedTo(folders, files, parentPath) ==
  LET known(i) == \E j \in 1..(i - 1) : folders[j].relativePath = parentPath
      fo == AtPositions(folders, {i \in 1..Len(folders) :
                /\ dirname(folders[i].relativePath) = parentPath
                /\ isRootPath(parentPath) \/ known(i)})
      fi == AtPositions(files, {i \in 1..Len(files) :
                dirname(files[i].relativePath) = parentPath})
  IN  [i \in 1..Len(fo) |-> TreeNode(fo[i])] \o [i \in 1..Len(fi) |-> TreeNode(fi[i])]

passes(folders, files) ==
  [root |-> attachedTo(folders, files, <<".">>) \o attachedTo(folders, files, <<>>),
   children |-> [p \in {folders[i].relativePath : i \in 1..Len(folders)} |->
                   IF isRootPath(p) THEN <<>> ELSE attachedTo(folders, files, p)]]

\* a variant that sorts the roots and leaves the children lists as pushed
sortChildrenRootsOnly(t) ==
  [root |-> Sort("node", t.root), children |-> t.children]

\* sortChildren, applied to the roots and to every children list
sortChildren(t) ==
  [root |-> Sort("node", t.root),
   children |-> [p \in DOMAIN t.children |-> Sort("node", t.children[p])]]

\* buildTree: the forest as its root list and the children list of every
\* folder node of nodeMap
buildTree(items) ==
  LET folders == Sort("itemPath", ItemsOfType(items, "folder"))
      files == ItemsOfType(items, "file")
  IN  sortChildren(passes(folders, files))

(***************************************************************************)
(* ui.ts: the document rendered by getWebviewContent                       *)
(***************************************************************************)
\* renderNode: the tree-item of the node, then, for a folder with children,
\* the tree-children container holding the rendered children
RECURSIVE renderNode(_, _)
RECURSIVE renderNodes(_, _)
renderNode(t, node) ==
  <<node>> \o (IF node.type = "folder" /\ Len(t.children[node.path]) > 0
               THEN renderNodes(t, t.children[node.path])
               ELSE <<>>)

\* the loop over a list of siblings, evaluated by halves of the list
renderNodes(t, nodes) ==
  IF nodes = <<>> THEN <<>>
  ELSE IF Len(nodes) = 1 THEN renderNode(t, nodes[1])
  ELSE LET h == Len(nodes) \div 2
       IN  renderNodes(t, SubSeq(nodes, 1, h)) \o renderNodes(t, SubSeq(nodes, h + 1, Len(nodes)))

NoParent == <<>>

\* the elements the script collects at load:
\*   checkboxes      every .tree-checkbox, in document order
\*   containers      containerByParent: folder path -> the checkboxes inside
\*                   its .tree-children container (all nested levels)
\*   parent          findParentPath of each checkbox
\*   type            data-type of the checkbox of each path (checkboxByPath)
Document(t) ==
  LET boxes == renderNodes(t, t.root)
      paths == {boxes[i].path : i \in 1..Len(boxes)}
      withKids == {boxes[i].path : i \in {j \in 1..Len(boxes) :
                     boxes[j].type = "folder" /\ Len(t.children[boxes[j].path]) > 0}}
      inside == [f \in withKids |-> renderNodes(t, t.children[f])]
      direct(f) == {t.children[f][i].path : i \in 1..Len(t.children[f])}
  IN  [checkboxes |-> boxes,
       type |-> [p \in paths |-> boxes[CHOOSE i \in 1..Len(boxes) : boxes[i].path = p].type],
       containers |-> [f \in withKids |-> {inside[f][i].path : i \in 1..Len(inside[f])}],
       parent |-> [p \in paths |->
                     IF \E f \in withKids : p \in direct(f)
                     THEN CHOOSE f \in withKids : p \in direct(f)
                     ELSE NoParent]]

(***************************************************************************)
(* ui.ts: the webview script.  The state of the checkboxes is the record   *)
(* cb = [checked, indeterminate], two functions on the checkbox paths.     *)
(***************************************************************************)
BoxPaths(d) == DOMAIN d.type
fileCheckboxes(d) == {p \in BoxPaths(d) : d.type[p] = "file"}
folderItems(d) ==
  FilterSeq([i \in 1..Len(d.checkboxes) |-> d.checkboxes[i].path],
            {p \in BoxPaths(d) : d.type[p] = "folder"})

\* the state of a freshly loaded document: nothing checked
FreshBoxes(d) ==
  [checked |-> [p \in BoxPaths(d) |-> FALSE],
   indeterminate |-> [p \in BoxPaths(d) |-> FALSE]]

\* updateSelectionInfo: the number of checked file checkboxes; the export
\* button is disabled exactly when it is zero
fileCount(d, cb) == Cardinality({p \in fileCheckboxes(d) : cb.checked[p]})

\* a variant that counts every checked checkbox, folders included
updateSelectionInfoAllBoxes(d, cb) ==
  [count |-> Cardinality({p \in BoxPaths(d) : cb.checked[p]}),
   disabled |-> (Cardinality({p \in BoxPaths(d) : cb.checked[p]}) = 0)]

updateSelectionInfo(d, cb) ==
  [count |-> fileCount(d, cb), disabled |-> (fileCount(d, cb) = 0)]

\* getDescendantCheckboxes: the checkboxes in the folder's container and in
\* the containers of the folders found there
\* a variant that collects the direct children only
getDescendantCheckboxesDirect(d, folderPath) ==
  {p \in BoxPaths(d) : d.parent[p] = folderPath}

RECURSIVE getDescendantCheckboxes(_, _)
getDescendantCheckboxes(d, folderPath) ==
  IF folderPath \notin DOMAIN d.containers THEN {}
  ELSE d.containers[folderPath] \cup
       UNION {getDescendantCheckboxes(d, q) :
                q \in {r \in d.containers[folderPath] : d.type[r] = "folder"}}

\* a variant that leaves the indeterminate flags of the descendants alone
setDescendantsCheckedKeepIndeterminate(d, cb, folderPath, select) ==
  LET desc == getDescendantCheckboxes(d, folderPath)
  IN  [checked |-> [p \in BoxPaths(d) |-> IF p \in desc THEN select ELSE cb.checked[p]],
       indeterminate |-> cb.indeterminate]

setDescendantsChecked(d, cb, folderPath, select) ==
  LET desc == getDescendantCheckboxes(d, folderPath)
  IN  [checked |-> [p \in BoxPaths(d) |-> IF p \in desc THEN select ELSE cb.checked[p]],
       indeterminate |-> [p \in BoxPaths(d) |->
                            IF p \in desc THEN FALSE ELSE cb.indeterminate[p]]]

\* a variant whose mixed branch leaves the checked flag of the folder alone
updateFolderStateKeepChecked(d, cb, folderPath) ==
  IF folderPath \notin BoxPaths(d) THEN cb
  ELSE IF folderPath \notin DOMAIN d.containers
  THEN [cb EXCEPT !.indeterminate[folderPath] = FALSE]
  ELSE LET childCheckboxes == d.containers[folderPath]
           checkedCount == Cardinality({p \in childCheckboxes : cb.checked[p]})
           indeterminateCount == Cardinality({p \in childCheckboxes : cb.indeterminate[p]})
       IN  IF Cardinality(childCheckboxes) = 0
           THEN [cb EXCEPT !.indeterminate[folderPath] = FALSE]
           ELSE IF checkedCount = Cardinality(childCheckboxes)
           THEN [cb EXCEPT !.checked[folderPath] = TRUE,
                           !.indeterminate[folderPath] = FALSE]
           ELSE IF checkedCount = 0 /\ indeterminateCount = 0
           THEN [cb EXCEPT !.checked[folderPath] = FALSE,
                           !.indeterminate[folderPath] = FALSE]
           ELSE [cb EXCEPT !.indeterminate[folderPath] = TRUE]

updateFolderState(d, cb, folderPath) ==
  IF folderPath \notin BoxPaths(d) THEN cb
  ELSE IF folderPath \notin DOMAIN d.containers
  THEN [cb EXCEPT !.indeterminate[folderPath] = FALSE]
  ELSE LET childCheckboxes == d.containers[folderPath]
           checkedCount == Cardinality({p \in childCheckboxes : cb.checked[p]})
           indeterminateCount == Cardinality({p \in childCheckboxes : cb.indeterminate[p]})
       IN  IF Cardinality(childCheckboxes) = 0
           THEN [cb EXCEPT !.indeterminate[folderPath] = FALSE]
           ELSE IF checkedCount = Cardinality(childCheckboxes)
           THEN [cb EXCEPT !.checked[folderPath] = TRUE,
                           !.indeterminate[folderPath] = FALSE]
           ELSE IF checkedCount = 0 /\ indeterminateCount = 0
           THEN [cb EXCEPT !.checked[folderPath] = FALSE,
                           !.indeterminate[folderPath] = FALSE]
           ELSE [cb EXCEPT !.checked[folderPath] = FALSE,
                           !.indeterminate[folderPath] = TRUE]

\* the loop of updateAncestorStates, from the parent path it has reached
RECURSIVE updateAncestorsFrom(_, _, _)
updateAncestorsFrom(d, cb, parentPath) ==
  IF parentPath = NoParent THEN cb
  ELSE IF parentPath \notin BoxPaths(d) THEN updateFolderState(d, cb, parentPath)
  ELSE updateAncestorsFrom(d, updateFolderState(d, cb, parentPath), d.parent[parentPath])

\* a variant that recomputes the parent folder only
updateAncestorStatesParentOnly(d, cb, startCheckbox) ==
  IF d.parent[startCheckbox] = NoParent THEN cb
  ELSE updateFolderState(d, cb, d.parent[startCheckbox])

updateAncestorStates(d, cb, startCheckbox) ==
  updateAncestorsFrom(d, cb, d.parent[startCheckbox])

\* a variant that cascades from the parent folder of the checkbox
handleCheckboxChangeFromParent(d, cb, checkbox) ==
  LET start == IF d.parent[checkbox] # NoParent THEN d.parent[checkbox] ELSE checkbox
      cascaded == setDescendantsChecked(d, cb, start, cb.checked[checkbox])
  IN  updateAncestorStates(d, cascaded, checkbox)

\* handleCheckboxChange without its last call, updateSelectionInfo
handleCheckboxChange(d, cb, checkbox) ==
  LET cascaded == IF d.type[checkbox] = "folder" /\ checkbox # <<>>
                  THEN setDescendantsChecked(d, cb, checkbox, cb.checked[checkbox])
                  ELSE cb
  IN  updateAncestorStates(d, cascaded, checkbox)

\* the folderItems.forEach(updateFolderState) of Select All and Deselect All
RECURSIVE updateFolders(_, _, _)
updateFolders(d, cb, folders) ==
  IF folders = <<>> THEN cb
  ELSE updateFolders(d, updateFolderState(d, cb, Head(folders)), Tail(folders))

\* the click handlers of selectAll (select = TRUE) and deselectAll
setAll(d, select) ==
  updateFolders(d,
                [checked |-> [p \in BoxPaths(d) |-> select],
                 indeterminate |-> [p \in BoxPaths(d) |-> FALSE]],
                folderItems(d))

\* the paths the export click collects: the checked file checkboxes in
\* document order, empty data-path values filtered out
exportPaths(d, cb) ==
  FilterSeq([i \in 1..Len(d.checkboxes) |-> d.checkboxes[i].path],
            {p \in fileCheckboxes(d) : cb.checked[p] /\ p # <<>>})

(***************************************************************************)
(* fileSystem.ts: the markdown formatter                                   *)
(***************************************************************************)
\* s.toLowerCase()
toLowerCase(s) ==
  [i \in 1..Len(s) |-> IF s[i] \in Range(Uppers) THEN Lowers[IndexIn(Uppers, s[i])] ELSE s[i]]

\* path.extname: from the last dot of the basename, unless that dot is its
\* first character
extname(p) ==
  LET b == basename(p)
      dots == {i \in 1..Len(b) : b[i] = "."}
      last == CHOOSE i \in dots : \A j \in dots : j <= i
  IN  IF dots = {} THEN <<>>
      ELSE IF last = 1 THEN <<>>
      ELSE SubSeq(b, last, Len(b))

\* EXTENSION_TO_LANGUAGE, the entries for the extensions of the model's files
EXTENSION_TO_LANGUAGE ==
  (<<".","t","s">> :> <<"t","y","p","e","s","c","r","i","p","t">>) @@
  (<<".","j","s">> :> <<"j","a","v","a","s","c","r","i","p","t">>) @@
  (<<".","m","d">> :> <<"m","a","r","k","d","o","w","n">>) @@
  (<<".","t","x","t">> :> <<"t","e","x","t">>) @@
  (<<".","r">> :> <<"r">>) @@
  (<<".","R">> :> <<"r">>) @@
  (<<".","d","o","c","k","e","r","f","i","l","e">> :> <<"d","o","c","k","e","r","f","i","l","e">>) @@
  (<<".","g","i","t","i","g","n","o","r","e">> :> <<"g","i","t","i","g","n","o","r","e">>)

getLanguageFromExtensionCaseSensitive(filePath) ==
  LET ext == toLowerCase(extname(filePath))
      base == basename(filePath)
  IN  IF base = <<"d","o","c","k","e","r","f","i","l","e">> THEN <<"d","o","c","k","e","r","f","i","l","e">>
      ELSE IF base = <<"m","a","k","e","f","i","l","e">> THEN <<"m","a","k","e","f","i","l","e">>
      ELSE IF ext \in DOMAIN EXTENSION_TO_LANGUAGE THEN EXTENSION_TO_LANGUAGE[ext]
      ELSE <<>>

getLanguageFromExtension(filePath) ==
  LET ext == toLowerCase(extname(filePath))
      base == toLowerCase(basename(filePath))
  IN  IF base = <<"d","o","c","k","e","r","f","i","l","e">> THEN <<"d","o","c","k","e","r","f","i","l","e">>
      ELSE IF base = <<"m","a","k","e","f","i","l","e">> THEN <<"m","a","k","e","f","i","l","e">>
      ELSE IF ext \in DOMAIN EXTENSION_TO_LANGUAGE THEN EXTENSION_TO_LANGUAGE[ext]
      ELSE <<>>

\* FileWithContent
FileWithContent(p, c) == [relativePath |-> p, content |-> c]

\* lines.join("\n"), evaluated by halves of the list
RECURSIVE joinLines(_)
joinLines(lines) ==
  IF lines = <<>> THEN <<>>
  ELSE IF Len(lines) = 1 THEN lines[1]
  ELSE LET h == Len(lines) \div 2
       IN  joinLines(SubSeq(lines, 1, h)) \o <<"\n">>
           \o joinLines(SubSeq(lines, h + 1, Len(lines)))

dirKeyOf(file) ==
  IF dirname(file.relativePath) = <<".">> THEN ROOT_KEY ELSE dirname(file.relativePath)

\* buildFileTree: the keys in insertion order, and the basenames pushed
\* under each key in input order
dirKeys(files) ==
  LET first == {i \in 1..Len(files) :
                  \A j \in 1..(i - 1) : dirKeyOf(files[j]) # dirKeyOf(files[i])}
      keys == AtPositions(files, first)
  IN  [k \in 1..Len(keys) |-> dirKeyOf(keys[k])]

buildFileTree(files) ==
  [keys |-> dirKeys(files),
   names |-> [k \in Range(dirKeys(files)) |->
                LET under == AtPositions(files, {i \in 1..Len(files) :
                                                   dirKeyOf(files[i]) = k})
                IN  [j \in 1..Len(under) |-> basename(under[j].relativePath)]]]

\* the lines of one directory of the structure section
dirLines(dir, filesInDir) ==
  IF dir = ROOT_KEY
  THEN [i \in 1..Len(filesInDir) |-> <<"-"," ">> \o filesInDir[i]]
  ELSE <<<<"-"," ">> \o dir \o <<"/">>>> \o
       [i \in 1..Len(filesInDir) |-> <<" "," ","-"," ">> \o filesInDir[i]]

RECURSIVE structureLines(_, _)
structureLines(tree, sortedDirs) ==
  IF sortedDirs = <<>> THEN <<>>
  ELSE dirLines(Head(sortedDirs), Sort("codeUnit", tree.names[Head(sortedDirs)]))
       \o structureLines(tree, Tail(sortedDirs))

generateStructureSection(files) ==
  LET tree == buildFileTree(files)
  IN  joinLines(<<<<"#","#"," ","S","t","r","u","c","t","u","r","e">>, <<>>>> \o structureLines(tree, Sort("dir", tree.keys)))

\* the grave accent, which a TLA+ string cannot hold, as a token of its own
Backtick == "grave"
FENCE == <<Backtick, Backtick, Backtick>>

\* the six lines of the content section of one file
sectionLines(file) ==
  LET language == getLanguageFromExtension(file.relativePath)
      fenceStart == IF language # <<>> THEN FENCE \o language ELSE FENCE
  IN  <<<<"#","#"," ","F","i","l","e",":"," ">> \o file.relativePath, <<>>, fenceStart, file.content,
        FENCE, <<>>>>

\* the loop over the files, evaluated by halves of the list
RECURSIVE sectionsOf(_)
sectionsOf(files) ==
  IF files = <<>> THEN <<>>
  ELSE IF Len(files) = 1 THEN sectionLines(files[1])
  ELSE LET h == Len(files) \div 2
       IN  sectionsOf(SubSeq(files, 1, h)) \o sectionsOf(SubSeq(files, h + 1, Len(files)))

generateFileContentSectionsSorted(files) == joinLines(sectionsOf(Sort("itemPath", files)))
generateFileContentSections(files) == joinLines(sectionsOf(files))

generateMarkdown(files) ==
  IF Len(files) = 0 THEN <<>>
  ELSE generateStructureSection(files) \o <<"\n","\n">> \o generateFileContentSections(files)

(***************************************************************************)
(* Bounds and inputs of the model                                          *)
(***************************************************************************)
\* the largest number of files of a small workspace or item list
MaxFiles == 3
\* the number of files of the large workspace above the threshold
LargeExtra == 1
\* the largest number of messages the host handles in one session
MaxMessages == 2
\* the threshold of confirmLargeSelection
LargeSelectionThreshold == 50

CandidateFiles ==
  {<<"a",".","t","x","t">>, <<"d","o","c","s","/","b",".","m","d">>, <<"d","o","c","s","/","s","u","b","/","E",".","t","s">>, <<"d","o","c","s","/","s","u","b","/","d",".","t","s">>}

\* docs and docs/sub are the ancestors of the candidate files; tmp and
\* docs/old are folders no candidate file lives in
CandidateFolders == {<<"d","o","c","s">>, <<"d","o","c","s","/","s","u","b">>, <<"t","m","p">>, <<"d","o","c","s","/","o","l","d">>}

\* the n-th file of the large workspace: f01, f02, ...
LargeFile(n) == <<"f", Digits[(n \div 10) + 1], Digits[(n % 10) + 1]>>
LargeWorkspace == {LargeFile(n) : n \in 1..(LargeSelectionThreshold + LargeExtra)}

\* what findFiles can find: a small workspace, or the large one
Workspaces ==
  {fs \in SUBSET CandidateFiles : Cardinality(fs) <= MaxFiles} \cup {LargeWorkspace}

\* the files of the workspace whose read fails
UnreadableChoices(fs) ==
  IF fs = LargeWorkspace THEN {{}, {LargeFile(1)}, LargeWorkspace} ELSE SUBSET fs

\* the sets of files the user may have checked when the export is clicked:
\* the export button is disabled while no file is checked
SelectionChoices(fs) ==
  IF fs = LargeWorkspace
  THEN {{LargeFile(2)}, LargeWorkspace,
        {LargeFile(n) : n \in 1..LargeSelectionThreshold}}
  ELSE (SUBSET fs) \ {{}}

\* an item list as the picker receives it: folders, then files
ItemList(folders, files) ==
  LET fo == SortSet("codeUnit", folders)
      fi == SortSet("locale", files)
  IN  [i \in 1..Len(fo) |-> FolderItem(fo[i])] \o [i \in 1..Len(fi) |-> FileItem(fi[i])]

\* the item lists of the picker sessions: any folders with any files, which
\* covers the lists of buildWorkspaceItems, lists with folders that hold no
\* file, and lists in which the parent folder of an item is missing
PickerItemLists ==
  {ItemList(fo, fi) : fo \in SUBSET CandidateFolders,
                      fi \in {x \in SUBSET CandidateFiles : Cardinality(x) <= MaxFiles}}
  \ {<<>>}

\* the file paths the functions are called with on their own
PoolFiles ==
  CandidateFiles \cup {<<"L","i","b","/","m",".","j","s">>, <<"s","r","c","/","a",".","t","s">>, <<"s","r","c","2","/","x",".","t","s">>}

\* the arguments of getLanguageFromExtension: the two special basenames in
\* several spellings, alone, under a directory, with an extension and as
\* the name of a directory; extensions of the table in both cases;
\* extensions that are not in the table; names with no extension, with a
\* leading dot, with a trailing dot and with two dots
LangInputs ==
  {<<"D","o","c","k","e","r","f","i","l","e">>,
   <<"d","o","c","k","e","r","f","i","l","e">>,
   <<"D","O","C","K","E","R","F","I","L","E">>,
   <<"d","o","c","s","/","M","a","k","e","f","i","l","e">>,
   <<"M","a","k","e","F","i","l","e">>,
   <<"a",".","t","s">>,
   <<"a",".","T","S">>,
   <<"d","o","c","s","/","b",".","M","d">>,
   <<"m",".","j","s">>,
   <<"D","o","c","k","e","r","f","i","l","e",".","m","d">>,
   <<"m","a","k","e","f","i","l","e",".","t","x","t">>,
   <<"d","o","c","k","e","r","f","i","l","e","/","a",".","t","s">>,
   <<"M","a","k","e","f","i","l","e","/","x">>,
   <<"x",".","d","o","c","k","e","r","f","i","l","e">>,
   <<"x",".","D","o","c","k","e","r","f","i","l","e">>,
   <<".","g","i","t","i","g","n","o","r","e">>,
   <<"a",".","g","i","t","i","g","n","o","r","e">>,
   <<"x",".","R">>,
   <<"x",".","r">>,
   <<"n","o","e","x","t">>,
   <<"a",".">>,
   <<"a",".","b",".","t","s">>,
   <<"d","o","c","s",".","d","/","b">>,
   <<"x",".","z","z","z">>,
   <<"m","y","m","a","k","e","f","i","l","e">>,
   <<".","t","s">>}

\* s.reverse()
Reverse(s) == [i \in 1..Len(s) |-> s[Len(s) + 1 - i]]

\* the arguments of buildTree: showTreePicker hands it the items it was
\* called with; the item lists of the picker sessions are taken in the
\* order of the indexer and in the opposite order
TreeInputs == PickerItemLists \cup {Reverse(its) : its \in PickerItemLists}

\* the arguments of expandFolderSelections: item lists over two folders, one
\* named with the other's name as a prefix, and their files, in the order
\* of the indexer and in the opposite order, with selections of up to
\* MaxFiles items that need not be in the list
ExpandInputs ==
  LET folders == {<<"s","r","c">>, <<"s","r","c","2">>}
      files == {<<"a",".","t","x","t">>, <<"s","r","c","/","a",".","t","s">>, <<"s","r","c","/","B",".","t","s">>, <<"s","r","c","2","/","x",".","t","s">>}
      lists == {ItemList(fo, fi) : fo \in SUBSET folders, fi \in SUBSET files}
  IN  {[selectedItems |-> sel, allItems |-> its] :
         sel \in {l \in lists : Len(l) <= MaxFiles},
         its \in lists \cup {Reverse(l) : l \in lists}}

\* the arguments of buildWorkspaceItems: the files findFiles found
IndexInputs == {fs \in SUBSET PoolFiles : Cardinality(fs) <= MaxFiles}

\* the content readFileContent returns for a readable file
fileContent(p) == <<"t","e","x","t"," ","o","f"," ">> \o p

\* the arguments of generateMarkdown: up to MaxFiles distinct files in every
\* order, among them a Makefile, two files of one directory whose names
\* differ in case and a file with no extension in a directory named (root);
\* the content of a.txt has three lines, two of them like a header and a fence
GenInputs ==
  LET pool == PoolFiles \cup {<<"M","a","k","e","f","i","l","e">>,
                              <<"(","r","o","o","t",")","/","y">>}
      content(q) == IF q = <<"a",".","t","x","t">>
                    THEN <<"x","\n">> \o <<"#","#"," ","F","i","l","e",":"," ","z">>
                         \o <<"\n", Backtick, Backtick, Backtick>>
                    ELSE fileContent(q)
      orders == UNION {{o \in [1..n -> pool] :
                          \A i, j \in 1..n : o[i] = o[j] => i = j} : n \in 0..MaxFiles}
  IN  {[i \in 1..Len(o) |-> FileWithContent(o[i], content(o[i]))] : o \in orders}

(***************************************************************************)
(* State                                                                   *)
(***************************************************************************)
VARIABLES
  \* the webview script (ui.ts, the script of getWebviewContent)
  items,            \* the item list of the picker session
  doc,              \* the rendered document
  checked,          \* checkbox path -> cb.checked
  indeterminate,    \* checkbox path -> cb.indeterminate
  exportDisabled,   \* exportBtn.disabled
  selectionCount,   \* the file count shown in selectionInfo
  posted,           \* the messages the script has posted to the host, in order
  lastOp,           \* the last operation of the user on the page
  \* the environment of the command
  hasWorkspace,     \* workspaceFolders is non-empty
  found,            \* the files findFiles finds
  unreadable,       \* the files whose read fails
  \* the command llmify.openPicker (extension.ts) and showTreePicker (ui.ts)
  pc,               \* the await the command is suspended at
  scanned,          \* buildWorkspaceItems: no, started, resolved, rejected
  allItems,
  panel,            \* the webview panel: none, open, disposed
  promise,          \* the promise of showTreePicker: resolved, value
  closedBy,         \* the event that first resolved the promise
  delivered,        \* number of messages the host has handled
  selectedPaths,
  modal,            \* the modal warning: none, shown, Yes, No, dismissed
  fileItems,
  readIndex,
  filesWithContent,
  reads,            \* the paths handed to readFileContent, in order
  generateCalls,    \* the inputs generateMarkdown was called with
  markdown,
  clipboard,        \* none, written, failed
  clipboardText,
  openCalls,        \* the contents handed to openTextDocument
  shown,            \* showTextDocument succeeded
  messages,         \* showErrorMessage / showWarningMessage / showInformationMessage
  consoleLog,       \* console.warn and console.error
  \* a call of one of the exported functions on its own
  fnOp,             \* the function called, "none" before the call
  fnInput,          \* its arguments
  fnOutput          \* the value it returned

pickerVars ==
  <<items, doc, checked, indeterminate, exportDisabled, selectionCount, posted, lastOp>>
envVars == <<hasWorkspace, found, unreadable>>
fnVars == <<fnOp, fnInput, fnOutput>>
sessionVars == <<panel, promise, closedBy, delivered>>
readVars == <<fileItems, readIndex, filesWithContent, reads>>
outputVars == <<generateCalls, markdown, clipboard, clipboardText, openCalls, shown>>
cmdVars ==
  <<pc, scanned, allItems, sessionVars, selectedPaths, modal, readVars, outputVars,
    messages, consoleLog>>
vars == <<pickerVars, envVars, fnVars, cmdVars>>

Undefined == [kind |-> "undefined"]
Paths(ps) == [kind |-> "paths", paths |-> ps]
Pending == [kind |-> "pending"]
CancelMessage == [type |-> "cancel"]
ExportMessage(ps) == [type |-> "export", paths |-> ps]

\* the page as the script leaves it after loading: updateSelectionInfo ran
LoadPage(its) ==
  LET d == Document(buildTree(its))
      info == updateSelectionInfo(d, FreshBoxes(d))
  IN  /\ items' = its
      /\ doc' = d
      /\ checked' = FreshBoxes(d).checked
      /\ indeterminate' = FreshBoxes(d).indeterminate
      /\ exportDisabled' = info.disabled
      /\ selectionCount' = info.count
      /\ posted' = <<>>
      /\ lastOp' = [op |-> "load"]

InitPage(its) ==
  LET d == Document(buildTree(its))
      info == updateSelectionInfo(d, FreshBoxes(d))
  IN  /\ items = its
      /\ doc = d
      /\ checked = FreshBoxes(d).checked
      /\ indeterminate = FreshBoxes(d).indeterminate
      /\ exportDisabled = info.disabled
      /\ selectionCount = info.count
      /\ posted = <<>>
      /\ lastOp = [op |-> "load"]

\* no function has been called on its own
NoCall ==
  /\ fnOp = "none"
  /\ fnInput = <<>>
  /\ fnOutput = <<>>

InitCommand ==
  /\ pc = "idle"
  /\ scanned = "no"
  /\ allItems = <<>>
  /\ panel = "none"
  /\ promise = [resolved |-> FALSE, value |-> Pending]
  /\ closedBy = "none"
  /\ delivered = 0
  /\ selectedPaths = Pending
  /\ modal = "none"
  /\ fileItems = <<>>
  /\ readIndex = 0
  /\ filesWithContent = <<>>
  /\ reads = <<>>
  /\ generateCalls = <<>>
  /\ markdown = <<>>
  /\ clipboard = "none"
  /\ clipboardText = <<>>
  /\ openCalls = <<>>
  /\ shown = FALSE
  /\ messages = <<>>
  /\ consoleLog = <<>>

(***************************************************************************)
(* The webview script: one action per event listener.  The listeners go on *)
(* running after a message is posted, until the host disposes the panel.   *)
(* The page is followed up to MaxMessages posts, as many as the host       *)
(* handles.                                                                *)
(***************************************************************************)
Boxes == [checked |-> checked, indeterminate |-> indeterminate]

\* the assignments every checkbox listener ends with: the new checkbox
\* state and updateSelectionInfo on it
SetBoxes(cb) ==
  /\ checked' = cb.checked
  /\ indeterminate' = cb.indeterminate
  /\ exportDisabled' = updateSelectionInfo(doc, cb).disabled
  /\ selectionCount' = updateSelectionInfo(doc, cb).count

\* the user clicks a checkbox: the browser flips checked and clears
\* indeterminate, then the change listener calls handleCheckboxChange
ChangeCheckbox ==
  \E p \in BoxPaths(doc) :
    LET clicked == [checked |-> [checked EXCEPT ![p] = ~checked[p]],
                    indeterminate |-> [indeterminate EXCEPT ![p] = FALSE]]
    IN  /\ SetBoxes(handleCheckboxChange(doc, clicked, p))
        /\ lastOp' = [op |-> "toggle", path |-> p, value |-> ~checked[p]]
        /\ UNCHANGED <<items, doc, posted>>
        /\ UNCHANGED <<envVars, fnVars, cmdVars>>

SelectAllClick ==
  /\ SetBoxes(setAll(doc, TRUE))
  /\ lastOp' = [op |-> "selectAll"]
  /\ UNCHANGED <<items, doc, posted>>
  /\ UNCHANGED <<envVars, fnVars, cmdVars>>

DeselectAllClick ==
  /\ SetBoxes(setAll(doc, FALSE))
  /\ lastOp' = [op |-> "deselectAll"]
  /\ UNCHANGED <<items, doc, posted>>
  /\ UNCHANGED <<envVars, fnVars, cmdVars>>

\* the click listener of exportBtn; a disabled button dispatches no click
exportBtnClick(op) ==
  /\ ~exportDisabled
  /\ Len(posted) < MaxMessages
  /\ posted' = Append(posted, ExportMessage(exportPaths(doc, Boxes)))
  /\ lastOp' = [op |-> op]
  /\ UNCHANGED <<items, doc, checked, indeterminate, exportDisabled, selectionCount>>
  /\ UNCHANGED <<envVars, fnVars, cmdVars>>

ExportClick == exportBtnClick("exportClick")

\* keydown with Enter: exportBtn.click() unless the button is disabled
KeyEnter == ~exportDisabled /\ exportBtnClick("enter")

postCancel(op) ==
  /\ Len(posted) < MaxMessages
  /\ posted' = Append(posted, CancelMessage)
  /\ lastOp' = [op |-> op]
  /\ UNCHANGED <<items, doc, checked, indeterminate, exportDisabled, selectionCount>>
  /\ UNCHANGED <<envVars, fnVars, cmdVars>>

CancelClick == postCancel("cancelClick")

KeyEscape == postCancel("escape")

InitPicker ==
  /\ \E its \in PickerItemLists : InitPage(its)
  /\ hasWorkspace = TRUE
  /\ found = {}
  /\ unreadable = {}
  /\ InitCommand
  /\ NoCall

NextPicker ==
  \/ ChangeCheckbox
  \/ SelectAllClick
  \/ DeselectAllClick
  \/ ExportClick
  \/ KeyEnter
  \/ CancelClick
  \/ KeyEscape

SpecPicker == InitPicker /\ [][NextPicker]_vars

(***************************************************************************)
(* ui.ts: showTreePicker, the host side of the picker session              *)
(***************************************************************************)
\* a variant in which every call settles the promise anew
resolveOnceAgain(pr, value) == [resolved |-> TRUE, value |-> value]

\* resolveOnce: only the first call settles the promise
resolveOnce(pr, value) ==
  IF pr.resolved THEN pr ELSE [resolved |-> TRUE, value |-> value]

\* the filter of the export case: the non-empty strings of message.paths
\* when that is an array, no path otherwise.  A string is a sequence of
\* characters of the alphabet; a value of another type is written as a
\* word in angle brackets ("<null>"), which is no such sequence
exportedPaths(message) ==
  IF "paths" \notin DOMAIN message THEN <<>>
  ELSE AtPositions(message.paths,
                   {i \in 1..Len(message.paths) :
                      /\ message.paths[i] \in Seq(Alphabet)
                      /\ Len(message.paths[i]) > 0})

\* the listener of onDidReceiveMessage; panel.dispose() runs the listener of
\* onDidDispose, which calls resolveOnce(undefined)
\* a variant in which a cancel resolves with an empty path list
onDidReceiveMessageCancelEmpty(pr, message) ==
  IF message.type = "cancel"
  THEN resolveOnce(resolveOnce(pr, Paths(<<>>)), Undefined)
  ELSE IF message.type = "export"
  THEN resolveOnce(resolveOnce(pr, Paths(exportedPaths(message))), Undefined)
  ELSE pr

onDidReceiveMessage(pr, message) ==
  IF message.type = "cancel"
  THEN resolveOnce(resolveOnce(pr, Undefined), Undefined)
  ELSE IF message.type = "export"
  THEN resolveOnce(resolveOnce(pr, Paths(exportedPaths(message))), Undefined)
  ELSE pr

\* the listener of onDidDispose
onDidDispose(pr) == resolveOnce(pr, Undefined)

\* the messages the page of the session can post: cancel, or the export of
\* the files the user has checked
PageMessages ==
  {CancelMessage} \cup
  {ExportMessage(exportPaths(doc, [checked |-> [p \in BoxPaths(doc) |-> p \in sel],
                                   indeterminate |-> indeterminate])) :
     sel \in SelectionChoices(found)}

\* the host handles a message of the page.  The first one arrives while the
\* panel is open; one posted before the panel was disposed may follow it.
receive(message) ==
  /\ panel \in {"open", "disposed"}
  /\ delivered < MaxMessages
  /\ panel = "disposed" => delivered > 0
  /\ promise' = onDidReceiveMessage(promise, message)
  /\ closedBy' = IF promise.resolved THEN closedBy ELSE message.type
  /\ panel' = "disposed"
  /\ delivered' = delivered + 1
  /\ UNCHANGED pickerVars
  /\ UNCHANGED <<envVars, fnVars, pc, scanned, allItems, selectedPaths, modal, readVars,
                 outputVars, messages, consoleLog>>

ReceiveMessage == \E message \in PageMessages : receive(message)

\* export messages no page of the picker posts: paths that is not an array,
\* an empty list, a path that was not discovered, the path of a folder,
\* entries that are not strings or are empty, a path twice, all of these
\* together, and the candidate files in the opposite order of the item list
ForgedMessages ==
  <<[type |-> "export"],
    ExportMessage(<<>>),
    ExportMessage(<<<<"z","z","/","q",".","t","s">>>>),
    ExportMessage(<<<<"d","o","c","s">>>>),
    ExportMessage(<<"<null>", <<>>, <<"a",".","t","x","t">>>>),
    ExportMessage(<<<<"a",".","t","x","t">>, <<"a",".","t","x","t">>>>),
    ExportMessage(<<<<"d","o","c","s","/","b",".","m","d">>, "<number>", <<"d","o","c","s">>, <<"z","z","/","q",".","t","s">>, <<>>, <<"d","o","c","s","/","b",".","m","d">>, <<"a",".","t","x","t">>>>),
    ExportMessage(<<<<"d","o","c","s","/","s","u","b","/","E",".","t","s">>, <<"d","o","c","s","/","s","u","b","/","d",".","t","s">>, <<"d","o","c","s","/","b",".","m","d">>, <<"a",".","t","x","t">>>>)>>

\* the host handles an export message that did not come from the page
ReceiveForged == \E k \in DOMAIN ForgedMessages : receive(ForgedMessages[k])

\* the user closes the panel
PanelClosed ==
  /\ panel = "open"
  /\ promise' = onDidDispose(promise)
  /\ closedBy' = IF promise.resolved THEN closedBy ELSE "dispose"
  /\ panel' = "disposed"
  /\ UNCHANGED <<pickerVars, envVars, fnVars, delivered>>
  /\ UNCHANGED <<pc, scanned, allItems, selectedPaths, modal, readVars,
                 outputVars, messages, consoleLog>>

(***************************************************************************)
(* ui.ts: confirmLargeSelection                                            *)
(***************************************************************************)
\* a variant with the threshold one file higher
needsConfirmationOffByOne(fileCount_) == ~(fileCount_ <= LargeSelectionThreshold + 1)

\* TRUE when the modal warning has to be shown
needsConfirmation(fileCount_) == ~(fileCount_ <= LargeSelectionThreshold)

\* a variant that takes everything but No for a confirmation
confirmedByNotNo(answer) == answer # "No"

\* the value returned for the answer of the modal
confirmedBy(answer) == answer = "Yes"

(***************************************************************************)
(* extension.ts: the command llmify.openPicker.  One action per            *)
(* continuation: from the resolution of one await to the next await or to  *)
(* the return.                                                             *)
(***************************************************************************)
Message(kind, text) == [kind |-> kind, text |-> text]

\* return from the command with the user messages and console lines given
Return(msgs, logs) ==
  /\ pc' = "done"
  /\ messages' = messages \o msgs
  /\ consoleLog' = consoleLog \o logs

\* a variant of the outer catch that only logs
CatchLogsOnly(what) == Return(<<>>, <<"error">>)

\* the outer catch: console.error and showErrorMessage
Catch(what) == Return(<<Message("error", what)>>, <<"error">>)

\* a variant without the check for an empty result
afterReadLoopUnchecked(fwc, logs) ==
  /\ generateCalls' = Append(generateCalls, fwc)
  /\ markdown' = generateMarkdown(fwc)
  /\ pc' = "clipboard"
  /\ consoleLog' = consoleLog \o logs
  /\ UNCHANGED messages

\* lines 100-110: after the read loop, with the files read
afterReadLoop(fwc, logs) ==
  IF Len(fwc) = 0
  THEN /\ Return(<<Message("warning", "could not read any")>>, logs)
       /\ UNCHANGED <<generateCalls, markdown>>
  ELSE /\ generateCalls' = Append(generateCalls, fwc)
       /\ markdown' = generateMarkdown(fwc)
       /\ pc' = "clipboard"
       /\ consoleLog' = consoleLog \o logs
       /\ UNCHANGED messages

\* a variant that follows the order of the path list
selectedFileItemsInListOrder(its, paths) ==
  LET known == {i \in 1..Len(paths) : FileItem(paths[i]) \in Range(its)}
  IN  [k \in 1..Cardinality(known) |->
         FileItem(paths[CHOOSE i \in known : Cardinality({j \in known : j <= i}) = k])]

\* a variant without the test of the item type
selectedFileItemsAnyType(its, paths) ==
  FilterSeq(its, {its[i] : i \in {j \in 1..Len(its) : its[j].relativePath \in Range(paths)}})

\* lines 76-80: the file items of the selected paths, in the order of allItems
selectedFileItems(its, paths) ==
  FilterSeq(its, {its[i] : i \in {j \in 1..Len(its) :
                    its[j].type = "file" /\ its[j].relativePath \in Range(paths)}})

\* lines 63-86: the selection is confirmed; filter the items and start the
\* first read, or fall through the empty loop
startProcessing(paths) ==
  LET fi == selectedFileItems(allItems, paths)
  IN  /\ fileItems' = fi
      /\ filesWithContent' = <<>>
      /\ IF Len(fi) = 0
         THEN /\ afterReadLoop(<<>>, <<>>)
              /\ UNCHANGED <<readIndex, reads>>
         ELSE /\ pc' = "read"
              /\ readIndex' = 1
              /\ reads' = <<fi[1].relativePath>>
              /\ UNCHANGED <<generateCalls, markdown, messages, consoleLog>>

\* a variant that never misses the workspace
workspaceAssumed(open) == FALSE

\* lines 20-23: no workspace folder is open
workspaceMissing(open) == ~open

\* lines 18-40: the command starts
Invoke ==
  /\ pc = "idle"
  /\ IF workspaceMissing(hasWorkspace)
     THEN /\ Return(<<Message("error", "no workspace")>>, <<>>)
          /\ UNCHANGED scanned
     ELSE /\ pc' = "scan"
          /\ scanned' = "started"
          /\ UNCHANGED <<messages, consoleLog>>
  /\ UNCHANGED <<pickerVars, envVars, fnVars, allItems, sessionVars, selectedPaths, modal,
                 readVars, outputVars>>

\* lines 38-50: findFiles resolves; buildWorkspaceItems returns the items and
\* the picker opens unless there is none
ScanResolves ==
  /\ pc = "scan"
  /\ scanned' = "resolved"
  /\ allItems' = buildWorkspaceItems(found)
  /\ IF Len(allItems') = 0
     THEN /\ Return(<<Message("warning", "no files")>>, <<>>)
          /\ UNCHANGED <<pickerVars, panel>>
     ELSE /\ pc' = "pick"
          /\ LoadPage(allItems')
          /\ panel' = "open"
          /\ UNCHANGED <<messages, consoleLog>>
  /\ UNCHANGED <<envVars, fnVars, promise, closedBy, delivered, selectedPaths, modal,
                 readVars, outputVars>>

\* findFiles rejects: the outer catch
ScanRejects ==
  /\ pc = "scan"
  /\ Catch("scan failed")
  /\ scanned' = "rejected"
  /\ UNCHANGED <<pickerVars, envVars, fnVars, allItems, sessionVars, selectedPaths,
                 modal, readVars, outputVars>>

\* lines 50-61: the promise of showTreePicker is resolved
PickerResolves ==
  /\ pc = "pick"
  /\ promise.resolved
  /\ selectedPaths' = promise.value
  /\ IF promise.value = Undefined \/ Len(promise.value.paths) = 0
     THEN /\ Return(<<>>, <<>>)
          /\ UNCHANGED <<modal, readVars, generateCalls, markdown>>
     ELSE IF needsConfirmation(Len(promise.value.paths))
     THEN /\ pc' = "confirm"
          /\ modal' = "shown"
          /\ UNCHANGED <<readVars, generateCalls, markdown, messages, consoleLog>>
     ELSE /\ startProcessing(promise.value.paths)
          /\ UNCHANGED modal
  /\ UNCHANGED <<pickerVars, envVars, fnVars, scanned, allItems, sessionVars,
                 clipboard, clipboardText, openCalls, shown>>

\* lines 58-61: the modal warning is answered Yes or No, or dismissed
ModalAnswered ==
  \E answer \in {"Yes", "No", "dismissed"} :
    /\ pc = "confirm"
    /\ modal' = answer
    /\ IF confirmedBy(answer)
       THEN startProcessing(selectedPaths.paths)
       ELSE /\ Return(<<>>, <<>>)
            /\ UNCHANGED <<readVars, generateCalls, markdown>>
    /\ UNCHANGED <<pickerVars, envVars, fnVars, scanned, allItems, sessionVars, selectedPaths,
                   clipboard, clipboardText, openCalls, shown>>

\* lines 84-98: the loop goes on after one read, with the files read so far
continueReadLoop(fwc, logs) ==
  IF readIndex < Len(fileItems)
  THEN /\ readIndex' = readIndex + 1
       /\ reads' = Append(reads, fileItems[readIndex + 1].relativePath)
       /\ consoleLog' = consoleLog \o logs
       /\ UNCHANGED <<pc, generateCalls, markdown, messages>>
  ELSE /\ afterReadLoop(fwc, logs)
       /\ UNCHANGED <<readIndex, reads>>

\* lines 86-90: readFileContent resolves
ReadResolves ==
  /\ pc = "read"
  /\ fileItems[readIndex].relativePath \notin unreadable
  /\ filesWithContent' =
       Append(filesWithContent,
              FileWithContent(fileItems[readIndex].relativePath,
                              fileContent(fileItems[readIndex].relativePath)))
  /\ continueReadLoop(filesWithContent', <<>>)
  /\ UNCHANGED <<pickerVars, envVars, fnVars, scanned, allItems, sessionVars, selectedPaths,
                 modal, fileItems, clipboard, clipboardText, openCalls, shown>>

\* a variant in which a failed read reaches the outer catch
ReadRejectsAborts ==
  /\ pc = "read"
  /\ fileItems[readIndex].relativePath \in unreadable
  /\ Catch("read failed")
  /\ UNCHANGED <<pickerVars, envVars, fnVars, scanned, allItems, sessionVars, selectedPaths,
                 modal, readVars, outputVars>>

\* lines 91-97: readFileContent rejects: console.warn, the file is skipped
ReadRejects ==
  /\ pc = "read"
  /\ fileItems[readIndex].relativePath \in unreadable
  /\ continueReadLoop(filesWithContent, <<"warn">>)
  /\ UNCHANGED <<pickerVars, envVars, fnVars, scanned, allItems, sessionVars, selectedPaths,
                 modal, fileItems, filesWithContent, clipboard, clipboardText,
                 openCalls, shown>>

\* a variant that opens the document only when the clipboard was written
afterClipboardOpenIfWritten(written) ==
  /\ clipboard' = IF written THEN "written" ELSE "failed"
  /\ clipboardText' = IF written THEN markdown ELSE clipboardText
  /\ consoleLog' = IF written THEN consoleLog ELSE Append(consoleLog, "warn")
  /\ openCalls' = IF written THEN Append(openCalls, markdown) ELSE openCalls
  /\ pc' = IF written THEN "open" ELSE "done"
  /\ UNCHANGED messages

\* lines 112-123: after the clipboard write, written or not,
\* openTextDocument is called with the markdown
afterClipboard(written) ==
  /\ clipboard' = IF written THEN "written" ELSE "failed"
  /\ clipboardText' = IF written THEN markdown ELSE clipboardText
  /\ consoleLog' = IF written THEN consoleLog ELSE Append(consoleLog, "warn")
  /\ openCalls' = Append(openCalls, markdown)
  /\ pc' = "open"
  /\ UNCHANGED messages

\* lines 113-114: clipboard.writeText resolves
ClipboardResolves ==
  /\ pc = "clipboard"
  /\ afterClipboard(TRUE)
  /\ UNCHANGED <<pickerVars, envVars, fnVars, scanned, allItems, sessionVars, selectedPaths,
                 modal, readVars, generateCalls, markdown, shown>>

\* lines 115-117: clipboard.writeText rejects: console.warn
ClipboardRejects ==
  /\ pc = "clipboard"
  /\ afterClipboard(FALSE)
  /\ UNCHANGED <<pickerVars, envVars, fnVars, scanned, allItems, sessionVars, selectedPaths,
                 modal, readVars, generateCalls, markdown, shown>>

\* lines 120-126: openTextDocument resolves, showTextDocument is called
OpenResolves ==
  /\ pc = "open"
  /\ pc' = "show"
  /\ UNCHANGED <<pickerVars, envVars, fnVars, scanned, allItems, sessionVars, selectedPaths,
                 modal, readVars, outputVars, messages, consoleLog>>

\* openTextDocument rejects: the outer catch
OpenRejects ==
  /\ pc = "open"
  /\ Catch("open failed")
  /\ UNCHANGED <<pickerVars, envVars, fnVars, scanned, allItems, sessionVars, selectedPaths,
                 modal, readVars, outputVars>>

\* lines 124-132: showTextDocument resolves, the information message
ShowResolves ==
  /\ pc = "show"
  /\ shown' = TRUE
  /\ Return(<<Message("information", "prepared")>>, <<>>)
  /\ UNCHANGED <<pickerVars, envVars, fnVars, scanned, allItems, sessionVars, selectedPaths,
                 modal, readVars, generateCalls, markdown, clipboard, clipboardText,
                 openCalls>>

\* showTextDocument rejects: the outer catch
ShowRejects ==
  /\ pc = "show"
  /\ Catch("show failed")
  /\ UNCHANGED <<pickerVars, envVars, fnVars, scanned, allItems, sessionVars, selectedPaths,
                 modal, readVars, outputVars>>

InitCmd ==
  /\ InitPage(<<>>)
  /\ hasWorkspace \in BOOLEAN
  /\ found \in Workspaces
  /\ ~hasWorkspace => found = {}
  /\ unreadable \in UnreadableChoices(found)
  /\ InitCommand
  /\ NoCall

NextCmd ==
  \/ Invoke
  \/ ScanResolves
  \/ ScanRejects
  \/ ReceiveMessage
  \/ PanelClosed
  \/ PickerResolves
  \/ ModalAnswered
  \/ ReadResolves
  \/ ReadRejects
  \/ ClipboardResolves
  \/ ClipboardRejects
  \/ OpenResolves
  \/ OpenRejects
  \/ ShowResolves
  \/ ShowRejects

SpecCmd == InitCmd /\ [][NextCmd]_vars

\* the command when the host may also receive export messages that no page
\* of the picker posts
NextForged ==
  \/ NextCmd
  \/ ReceiveForged

SpecForged == InitCmd /\ [][NextForged]_vars

(***************************************************************************)
(* The command with the page of its picker: the user works on the page     *)
(* while the panel is open, and the host receives the message the page     *)
(* posted.  The workspaces are the small ones, so the modal is never shown. *)
(***************************************************************************)
\* an event listener of the page runs while the panel is open
PageEvent ==
  /\ pc = "pick"
  /\ panel = "open"
  /\ NextPicker

\* the host receives the next message the page posted
DeliverPosted ==
  /\ delivered < Len(posted)
  /\ receive(posted[delivered + 1])

InitFlow ==
  /\ InitPage(<<>>)
  /\ hasWorkspace = TRUE
  /\ found \in Workspaces \ {LargeWorkspace}
  /\ unreadable \in {u \in SUBSET found : Cardinality(u) <= 1}
  /\ InitCommand
  /\ NoCall

NextFlow ==
  \/ Invoke
  \/ ScanResolves
  \/ ScanRejects
  \/ PageEvent
  \/ DeliverPosted
  \/ PanelClosed
  \/ PickerResolves
  \/ ReadResolves
  \/ ReadRejects
  \/ ClipboardResolves
  \/ ClipboardRejects
  \/ OpenResolves
  \/ OpenRejects
  \/ ShowResolves
  \/ ShowRejects

SpecFlow == InitFlow /\ [][NextFlow]_vars

(***************************************************************************)
(* The exported functions called on their own: one call on one argument    *)
(***************************************************************************)
Call(op, input, output) ==
  /\ fnOp = "none"
  /\ fnOp' = op
  /\ fnInput' = input
  /\ fnOutput' = output
  /\ UNCHANGED <<pickerVars, envVars, cmdVars>>

\* buildWorkspaceItems on the files found
CallBuildWorkspaceItems ==
  \E fs \in IndexInputs : Call("buildWorkspaceItems", fs, buildWorkspaceItems(fs))

\* buildTree on an item list
CallBuildTree ==
  \E its \in TreeInputs : Call("buildTree", its, buildTree(its))

\* expandFolderSelections on a selection and an item list
CallExpandFolderSelections ==
  \E in \in ExpandInputs :
    Call("expandFolderSelections", in,
         expandFolderSelections(in.selectedItems, in.allItems))

\* generateMarkdown on a list of files with their contents
CallGenerateMarkdown ==
  \E files \in GenInputs : Call("generateMarkdown", files, generateMarkdown(files))

\* getLanguageFromExtension on a path
CallGetLanguageFromExtension ==
  \E filePath \in LangInputs :
    Call("getLanguageFromExtension", filePath, getLanguageFromExtension(filePath))

InitFn ==
  /\ InitPage(<<>>)
  /\ hasWorkspace = TRUE
  /\ found = {}
  /\ unreadable = {}
  /\ InitCommand
  /\ NoCall

NextFn ==
  \/ CallBuildWorkspaceItems
  \/ CallBuildTree
  \/ CallExpandFolderSelections
  \/ CallGenerateMarkdown
  \/ CallGetLanguageFromExtension

SpecFn == InitFn /\ [][NextFn]_vars

(***************************************************************************)
(* Properties of the picker page (SpecPicker)                              *)
(***************************************************************************)
\* the folders above a checkbox, by the parent links of the document
RECURSIVE AncestorsOf(_, _)
AncestorsOf(d, p) ==
  IF d.parent[p] = NoParent THEN {} ELSE {d.parent[p]} \cup AncestorsOf(d, d.parent[p])

DescendantsOf(d, f) == {p \in BoxPaths(d) : f \in AncestorsOf(d, p)}
DescendantFiles(d, f) == {p \in DescendantsOf(d, f) : d.type[p] = "file"}
FolderBoxes(d) == {p \in BoxPaths(d) : d.type[p] = "folder"}

\* every folder of the page has at least one descendant file
EveryFolderHasFile(d) == \A f \in FolderBoxes(d) : DescendantFiles(d, f) # {}

\* what a checkbox shows
Displayed(p) ==
  IF indeterminate[p] THEN "indeterminate"
  ELSE IF checked[p] THEN "checked" ELSE "unchecked"

\* what a folder has to show for the checked files below it
DerivedState(d, f) ==
  LET files == DescendantFiles(d, f)
      on == {p \in files : checked[p]}
  IN  IF on = files THEN "checked"
      ELSE IF on = {} THEN "unchecked"
      ELSE "indeterminate"

\* C1: in a tree in which every folder has a descendant file, after any
\* sequence of toggles, Select All and Deselect All, every folder shows
\* checked iff all its descendant files are checked, unchecked iff none is,
\* and indeterminate otherwise
C1_FolderStateDerived ==
  EveryFolderHasFile(doc) =>
    \A f \in FolderBoxes(doc) : Displayed(f) = DerivedState(doc, f)

\* a file toggle has left a checked folder inside an indeterminate folder
C1_Witness ==
  /\ EveryFolderHasFile(doc)
  /\ lastOp.op = "toggle"
  /\ doc.type[lastOp.path] = "file"
  /\ \E f, g \in FolderBoxes(doc) :
       /\ doc.parent[g] = f
       /\ g \in AncestorsOf(doc, lastOp.path)
       /\ Displayed(g) = "checked"
       /\ Displayed(f) = "indeterminate"

\* C2: the toggle of a folder to v leaves every descendant file with
\* checked = v and every descendant folder showing v, none indeterminate
C2_FolderToggleCascades ==
  (lastOp.op = "toggle" /\ doc.type[lastOp.path] = "folder") =>
    \A p \in DescendantsOf(doc, lastOp.path) :
      checked[p] = lastOp.value /\ ~indeterminate[p]

\* a folder holding a folder with two files was toggled to unchecked
C2_Witness ==
  /\ lastOp.op = "toggle"
  /\ doc.type[lastOp.path] = "folder"
  /\ lastOp.value = FALSE
  /\ \E g \in DescendantsOf(doc, lastOp.path) :
       doc.type[g] = "folder" /\ Cardinality(DescendantFiles(doc, g)) >= 2

CheckedFiles == {p \in fileCheckboxes(doc) : checked[p]}

\* C3: after every operation the export button is disabled exactly when no
\* file is checked, and no export message carries an empty path list
C3_ExportDisabledIffNoFile ==
  /\ exportDisabled <=> (CheckedFiles = {})
  /\ selectionCount = Cardinality(CheckedFiles)
  /\ \A i \in 1..Len(posted) : posted[i].type = "export" => Len(posted[i].paths) > 0

\* a toggle has left a folder checked and no file checked: export disabled
C3_Witness ==
  /\ lastOp.op = "toggle"
  /\ exportDisabled
  /\ \E f \in FolderBoxes(doc) : checked[f]
  /\ fileCheckboxes(doc) # {}

\* the step of a toggle changes the checked state of no file but the
\* toggled file, or the files below the toggled folder
ToggleFrame ==
  lastOp'.op = "toggle" =>
    /\ \A p \in fileCheckboxes(doc) :
         checked'[p] # checked[p] =>
           \/ p = lastOp'.path
           \/ doc.type[lastOp'.path] = "folder" /\ p \in DescendantFiles(doc, lastOp'.path)
    /\ (doc.type[lastOp'.path] = "folder" /\ DescendantFiles(doc, lastOp'.path) = {}) =>
         {p \in fileCheckboxes(doc) : checked'[p]} = CheckedFiles

\* C23: a toggle of a file changes the checked state of no other file, a
\* toggle of a folder that of no file outside the folder, and a toggle of
\* a folder with no descendant files leaves the set of checked files as
\* it was
C23_ToggleFrame == [][ToggleFrame]_vars

\* a folder was toggled while a file outside it was checked and another
\* was not, on a page that also has a folder with no files
C23_Witness ==
  /\ lastOp.op = "toggle"
  /\ doc.type[lastOp.path] = "folder"
  /\ DescendantFiles(doc, lastOp.path) # {}
  /\ \E p \in fileCheckboxes(doc) \ DescendantFiles(doc, lastOp.path) : checked[p]
  /\ \E f \in FolderBoxes(doc) : DescendantFiles(doc, f) = {}

\* C27: in every state of the page no checkbox is both checked and
\* indeterminate, so an indeterminate folder has checked = false, and no
\* file checkbox is indeterminate
C27_CheckedExcludesIndeterminate ==
  \A p \in BoxPaths(doc) :
    /\ ~(checked[p] /\ indeterminate[p])
    /\ doc.type[p] = "file" => ~indeterminate[p]

\* a folder that was checked with all its files became indeterminate when
\* one of them was unchecked, next to a sub-folder that is still checked
C27_Witness ==
  /\ lastOp.op = "toggle"
  /\ doc.type[lastOp.path] = "file"
  /\ lastOp.value = FALSE
  /\ \E f \in AncestorsOf(doc, lastOp.path) :
       /\ indeterminate[f]
       /\ \E g \in FolderBoxes(doc) : doc.parent[g] = f /\ checked[g]

(***************************************************************************)
(* Properties of the command (SpecCmd)                                     *)
(***************************************************************************)
\* nothing was read, generated, written to the clipboard or opened
NoOutput ==
  /\ reads = <<>>
  /\ generateCalls = <<>>
  /\ clipboard = "none"
  /\ openCalls = <<>>
  /\ ~shown

\* no error, warning or information message was shown
NoMessageShown == messages = <<>>

\* C4: a picker session whose first event is a cancel message or the
\* disposal of the panel resolves with undefined, and the command ends the
\* same way in both cases: it returns with no output and no message
C4_CancelAndDisposeAlike ==
  closedBy \in {"cancel", "dispose"} =>
    /\ promise.resolved
    /\ promise.value = Undefined
    /\ pc # "pick" =>
         /\ pc = "done"
         /\ selectedPaths = Undefined
         /\ modal = "none"
         /\ NoOutput
         /\ NoMessageShown
         /\ consoleLog = <<>>

\* the session was cancelled, an export message arrived after the cancel, and
\* the command has returned
C4_Witness ==
  /\ closedBy = "cancel"
  /\ delivered > 1
  /\ pc = "done"

\* the number of files the picker confirmed
ConfirmedCount == IF selectedPaths.kind = "paths" THEN Len(selectedPaths.paths) ELSE 0

\* C5: with more than 50 confirmed files the modal warning is shown and
\* nothing is read, written or displayed unless the answer is Yes; No or a
\* dismissal ends the command; with 50 or fewer files no warning is shown
\* and the reads start
C5_LargeSelectionNeedsYes ==
  /\ ConfirmedCount > LargeSelectionThreshold =>
       /\ modal # "none"
       /\ modal # "Yes" => NoOutput
       /\ modal = "Yes" => reads # <<>>
  /\ modal \in {"No", "dismissed"} => pc = "done" /\ NoOutput
  /\ (ConfirmedCount > 0 /\ ConfirmedCount <= LargeSelectionThreshold) =>
       /\ modal = "none"
       /\ reads # <<>>

\* one file more than the threshold was confirmed and the answer was No
C5_Witness ==
  /\ ConfirmedCount = LargeSelectionThreshold + 1
  /\ modal = "No"
  /\ pc = "done"

\* C6: after a cancel at the selection stage or a declined confirmation the
\* command has ended without a read, a clipboard write, an opened document
\* or any message
C6_CancelIsSilent ==
  (selectedPaths = Undefined \/ modal \in {"No", "dismissed"}) =>
    /\ pc = "done"
    /\ NoOutput
    /\ NoMessageShown

\* the modal of a large selection was dismissed
C6_Witness ==
  /\ selectedPaths.kind = "paths"
  /\ modal = "dismissed"
  /\ pc = "done"
  /\ closedBy = "export"

\* C7: without a workspace root the command shows one error and stops
\* before discovery: no scan, no picker, no read, no clipboard write, no
\* document
C7_NoWorkspaceStops ==
  (~hasWorkspace /\ pc # "idle") =>
    /\ pc = "done"
    /\ messages = <<Message("error", "no workspace")>>
    /\ scanned = "no"
    /\ panel = "none"
    /\ NoOutput

\* the command was invoked without a workspace
C7_Witness ==
  /\ ~hasWorkspace
  /\ pc = "done"
  /\ Len(messages) = 1

\* the read loop is over and every selected file failed to be read
AllReadsFailed ==
  /\ fileItems # <<>>
  /\ \A i \in 1..Len(fileItems) : fileItems[i].relativePath \in unreadable
  /\ Len(reads) = Len(fileItems)
  /\ pc # "read"

\* C8: when discovery yields no item, or every selected file fails to be
\* read, the command ends with one warning and no output: no generator
\* call, no clipboard write, no opened document
C8_EmptyResultsWarn ==
  /\ (scanned = "resolved" /\ allItems = <<>>) =>
       /\ pc = "done"
       /\ messages = <<Message("warning", "no files")>>
       /\ panel = "none"
       /\ NoOutput
  /\ AllReadsFailed =>
       /\ pc = "done"
       /\ messages = <<Message("warning", "could not read any")>>
       /\ filesWithContent = <<>>
       /\ generateCalls = <<>>
       /\ clipboard = "none"
       /\ openCalls = <<>>
       /\ ~shown

\* two selected files were tried and both reads failed
C8_Witness ==
  /\ AllReadsFailed
  /\ Len(reads) >= 2
  /\ pc = "done"

\* the position of a path in the discovered item list
PositionIn(its, path) == CHOOSE i \in 1..Len(its) : its[i].relativePath = path

\* the selected files whose read succeeds
ReadableSelection == Range(selectedPaths.paths) \ unreadable

\* C9: when some but not all reads of the selected files fail, the batch
\* goes on: the generator receives exactly the selected files whose read
\* succeeded, each once, with its content, in the order of the discovered
\* items, and no message is shown for the failed reads
C9_FailedReadsSkipped ==
  /\ generateCalls # <<>> =>
       LET files == generateCalls[1]
       IN  /\ Len(generateCalls) = 1
           /\ {files[i].relativePath : i \in 1..Len(files)} = ReadableSelection
           /\ Len(files) = Cardinality(ReadableSelection)
           /\ \A i \in 1..Len(files) :
                files[i].content = fileContent(files[i].relativePath)
           /\ \A i, j \in 1..Len(files) :
                i < j => PositionIn(allItems, files[i].relativePath)
                           < PositionIn(allItems, files[j].relativePath)
  /\ pc \in {"read", "clipboard"} => NoMessageShown
  /\ (fileItems # <<>> /\ Len(reads) = Len(fileItems) /\ pc # "read"
        /\ ReadableSelection # {}) =>
       generateCalls # <<>>

\* the generator was called with two files or more after the read of
\* another selected file had failed
C9_Witness ==
  /\ generateCalls # <<>>
  /\ Len(generateCalls[1]) >= 2
  /\ Range(selectedPaths.paths) \cap unreadable # {}
  /\ pc = "clipboard"

\* C10: once a document is generated and the clipboard write is over,
\* openTextDocument has been called once with the generated markdown, the
\* same text the clipboard holds when it was written
C10_OpenedWhateverClipboard ==
  (generateCalls # <<>> /\ pc \in {"open", "show", "done"}) =>
    /\ clipboard \in {"written", "failed"}
    /\ openCalls = <<markdown>>
    /\ markdown = generateMarkdown(generateCalls[1])
    /\ clipboard = "written" => clipboardText = markdown

\* the clipboard write failed and the document is displayed
C10_Witness ==
  /\ clipboard = "failed"
  /\ openCalls # <<>>
  /\ shown

\* the modal warning of confirmLargeSelection, shown with showWarningMessage
ConfirmationPrompt == Message("warning", "large selection")

\* the error and warning messages shown so far: the modal warning, which is
\* shown before the command shows any other message, and the error and
\* warning messages shown since
Alerts ==
  (IF modal # "none" THEN <<ConfirmationPrompt>> ELSE <<>>)
  \o FilterSeq(messages, {m \in Range(messages) : m.kind \in {"error", "warning"}})

\* the messages of the environment condition and the empty-result conditions
ConditionAlerts ==
  {Message("error", "no workspace"), Message("warning", "no files"),
   Message("warning", "could not read any")}

\* the messages of the outer catch, one for each call that can reject
CatchAlerts ==
  {Message("error", "scan failed"), Message("error", "open failed"),
   Message("error", "show failed")}

\* C11 as stated: an error or warning is shown only for a missing workspace,
\* an empty discovery or no readable file; no other failure shows one
C11_OnlyConditionsAlert == Range(Alerts) \subseteq ConditionAlerts

\* C11 as amended: an error or warning is one of the three condition
\* messages, the modal warning that asks to confirm a selection of more than
\* 50 files, or the error of the outer catch.  The modal warning is shown
\* exactly for such a selection, and the error of the outer catch exactly
\* when discovery, openTextDocument or showTextDocument failed; a failed
\* read or a failed clipboard write alone shows none
C11_AlertsOnlyForConditionsAndCatch ==
  /\ Range(Alerts) \subseteq ConditionAlerts \cup {ConfirmationPrompt} \cup CatchAlerts
  /\ (ConfirmationPrompt \in Range(Alerts)) <=>
       /\ selectedPaths \notin {Pending, Undefined}
       /\ Len(selectedPaths.paths) > LargeSelectionThreshold
  /\ (Message("error", "scan failed") \in Range(Alerts)) <=> (scanned = "rejected")
  /\ (Range(Alerts) \cap CatchAlerts # {}) => (pc = "done" /\ ~shown)
  /\ (pc = "done" /\ openCalls # <<>> /\ ~shown) => (Range(Alerts) \cap CatchAlerts # {})
  /\ (pc = "done" /\ shown) => Range(Alerts) \subseteq {ConfirmationPrompt}

\* a selection of more than 50 files was confirmed, a read and the
\* clipboard write failed, and the document could not be opened: the modal
\* warning and the error of the outer catch are the two alerts of the run
C11_Witness ==
  /\ pc = "done"
  /\ modal = "Yes"
  /\ unreadable # {}
  /\ clipboard = "failed"
  /\ openCalls # <<>>
  /\ Alerts = <<ConfirmationPrompt, Message("error", "open failed")>>

\* a step of the picker session: a settled promise stays as it is, and a
\* step that settles it gives it the value of the event of that step
ResolvedOnce ==
  /\ promise.resolved => promise' = promise /\ closedBy' = closedBy
  /\ (~promise.resolved /\ promise'.resolved) =>
       \/ closedBy' \in {"cancel", "dispose"} /\ promise'.value = Undefined
       \/ /\ closedBy' = "export"
          /\ \E message \in PageMessages :
               /\ message.type = "export"
               /\ promise'.value = Paths(message.paths)

\* C25: the promise of a picker session is settled at most once, by the
\* first event among cancel, export and the disposal of the panel: an
\* export, with the disposal it causes, settles it with the exported paths
\* and not with undefined, and no later message changes the value
C25_ResolvedOnce == [][ResolvedOnce]_vars

\* an export settled the session with its paths, the panel was disposed
\* and a second message arrived afterwards
C25_Witness ==
  /\ closedBy = "export"
  /\ promise.resolved
  /\ promise.value.kind = "paths"
  /\ panel = "disposed"
  /\ delivered >= 2

\* C26: whatever path list the export message carries, every file the
\* command reads is a file item discovered in this invocation, selected by
\* the message, and no file is read twice
C26_ReadsOnlyDiscoveredFiles ==
  /\ \A i \in 1..Len(reads) :
       /\ reads[i] \in found
       /\ \E j \in 1..Len(allItems) : allItems[j] = FileItem(reads[i])
       /\ selectedPaths.kind = "paths"
       /\ \E j \in 1..Len(selectedPaths.paths) : selectedPaths.paths[j] = reads[i]
  /\ \A i, j \in 1..Len(reads) : reads[i] = reads[j] => i = j

\* the export message carried a path twice, the path of a folder and a
\* path that was not discovered; two discovered files were read
C26_Witness ==
  /\ pc = "done"
  /\ selectedPaths.kind = "paths"
  /\ \E i, j \in 1..Len(selectedPaths.paths) :
       i # j /\ selectedPaths.paths[i] = selectedPaths.paths[j]
  /\ \E i \in 1..Len(selectedPaths.paths) : selectedPaths.paths[i] \notin found
  /\ \E i, j \in 1..Len(selectedPaths.paths) :
       \E k \in 1..Len(allItems) :
         allItems[k] = FolderItem(selectedPaths.paths[i])
  /\ Len(reads) = 2

(***************************************************************************)
(* Properties of the exported functions (SpecFn)                           *)
(***************************************************************************)
\* the proper ancestor directories of a relative path: what is left of each
\* of its separators
AncestorDirs(p) == {SubSeq(p, 1, i - 1) : i \in {j \in 1..Len(p) : p[j] = sep}}

ItemPaths(its, t) == {its[i].relativePath : i \in {j \in 1..Len(its) : its[j].type = t}}

\* C12: the folder items of buildWorkspaceItems are exactly the proper
\* ancestor directories of the files, each once, the file items are the
\* files, each once, and every folder item precedes every file item
C12_FoldersAreAncestors ==
  fnOp = "buildWorkspaceItems" =>
    LET its == fnOutput
        folders == UNION {AncestorDirs(f) : f \in fnInput}
    IN  /\ ItemPaths(its, "folder") = folders
        /\ ItemPaths(its, "file") = fnInput
        /\ Len(its) = Cardinality(folders) + Cardinality(fnInput)
        /\ \A i, j \in 1..Len(its) :
             (its[i].type = "folder" /\ its[j].type = "file") => i < j
        /\ <<>> \notin folders /\ <<".">> \notin ItemPaths(its, "folder")

\* the files are a root file and files two directories deep: the folders
\* emitted are a directory and its sub-directory
C12_Witness ==
  /\ fnOp = "buildWorkspaceItems"
  /\ \E f \in fnInput : AncestorDirs(f) = {}
  /\ \E f \in fnInput : Cardinality(AncestorDirs(f)) = 2
  /\ Cardinality(ItemPaths(fnOutput, "folder")) = 2
  /\ Cardinality(fnInput) = 3

\* the nodes of the forest below a list of siblings, as a sequence
RECURSIVE NodesBelow(_, _)
NodesBelow(t, nodes) ==
  IF nodes = <<>> THEN <<>>
  ELSE <<Head(nodes)>>
       \o (IF Head(nodes).type = "folder"
           THEN NodesBelow(t, t.children[Head(nodes).path]) ELSE <<>>)
       \o NodesBelow(t, Tail(nodes))

ForestNodes(t) == NodesBelow(t, t.root)
ForestFolders(t) == {n.path : n \in {m \in Range(ForestNodes(t)) : m.type = "folder"}}
Occurrences(s, path) == Cardinality({i \in 1..Len(s) : s[i].path = path})

\* the folder nodes of the forest that hold the node of a path as a child
ParentsIn(t, path) ==
  {f \in ForestFolders(t) : \E i \in 1..Len(t.children[f]) : t.children[f][i].path = path}

IsRootNode(t, path) == \E i \in 1..Len(t.root) : t.root[i].path = path

\* the names along the parent chain of a node, joined by the separator
RECURSIVE NameChain(_, _)
NameChain(t, node) ==
  IF ParentsIn(t, node.path) = {} THEN node.name
  ELSE LET f == CHOOSE g \in ParentsIn(t, node.path) : TRUE
           parent == CHOOSE n \in Range(ForestNodes(t)) : n.path = f
       IN  NameChain(t, parent) \o <<sep>> \o node.name

\* the sibling lists of the forest: the roots and the children of each folder
Levels(t) == {t.root} \cup {t.children[f] : f \in ForestFolders(t)}

\* folders before files, and nodes of one kind in the order of their names
\* under the string comparison of the code (localeCompare)
LevelOrdered(nodes) ==
  \A i, j \in 1..Len(nodes) :
    i < j =>
      /\ nodes[i].type = "file" => nodes[j].type = "file"
      /\ nodes[i].type = nodes[j].type => localeCompare(nodes[i].name, nodes[j].name) < 0

\* C13: in the forest of buildTree the path of every node is the join of the
\* names along its parent chain, a non-root node has exactly one parent and
\* occurs once, a root has none, and every sibling list has its folders
\* before its files, each kind in lexical order of the names
C13_ForestShape ==
  fnOp = "buildTree" =>
    LET t == fnOutput
        nodes == ForestNodes(t)
    IN  /\ \A i \in 1..Len(nodes) :
             /\ nodes[i].path = NameChain(t, nodes[i])
             /\ Occurrences(nodes, nodes[i].path) = 1
             /\ IF IsRootNode(t, nodes[i].path)
                THEN ParentsIn(t, nodes[i].path) = {}
                ELSE Cardinality(ParentsIn(t, nodes[i].path)) = 1
        /\ \A level \in Levels(t) : LevelOrdered(level)

\* the items came in the opposite order, and the forest has a folder two
\* levels deep whose files differ in the case of the first letter
C13_Witness ==
  /\ fnOp = "buildTree"
  /\ Len(fnInput) > 1
  /\ fnInput[1].type = "file"
  /\ \E f \in ForestFolders(fnOutput) :
       /\ ParentsIn(fnOutput, f) # {}
       /\ Len(fnOutput.children[f]) = 2
       /\ fnOutput.children[f][1].name[1] \in Range(Lowers)
       /\ fnOutput.children[f][2].name[1] \in Range(Uppers)

\* C14 as stated: every item of the list is exactly one node of the forest,
\* a child of its parent folder when that folder is in the list, and a root
\* when its parent path is the root or is not in the list
C14_EveryItemIsANode ==
  fnOp = "buildTree" =>
    LET t == fnOutput
        folders == ItemPaths(fnInput, "folder")
    IN  \A i \in 1..Len(fnInput) :
          LET path == fnInput[i].relativePath
          IN  /\ Occurrences(ForestNodes(t), path) = 1
              /\ IF dirname(path) \in folders
                 THEN ParentsIn(t, path) = {dirname(path)}
                 ELSE IsRootNode(t, path)

\* C15: expanding the result of expandFolderSelections against the same
\* item list returns the same sequence
C15_ExpandIdempotent ==
  fnOp = "expandFolderSelections" =>
    expandFolderSelections(fnOutput, fnInput.allItems) = fnOutput

\* a selection of a file and a folder was expanded to three files or more
C15_Witness ==
  /\ fnOp = "expandFolderSelections"
  /\ "file" \in {fnInput.selectedItems[i].type : i \in 1..Len(fnInput.selectedItems)}
  /\ "folder" \in {fnInput.selectedItems[i].type : i \in 1..Len(fnInput.selectedItems)}
  /\ Len(fnOutput) >= 3
  /\ fnInput.allItems[1].type = "file"

\* the file paths of the list that the selection covers: selected as a
\* file, or below a selected folder
Covered(selectedItems, allItems_) ==
  {p \in ItemPaths(allItems_, "file") :
     \/ p \in ItemPaths(selectedItems, "file")
     \/ \E f \in ItemPaths(selectedItems, "folder") : startsWith(p, f \o <<sep>>)}

\* C16: the output of expandFolderSelections holds file items only, in
\* ascending order of relativePath, no path twice, and its paths are exactly
\* the files of the list selected as files or below a selected folder; a
\* file of a folder whose name only starts with the name of a selected
\* folder is not among them
C16_ExpandExact ==
  fnOp = "expandFolderSelections" =>
    /\ \A i \in 1..Len(fnOutput) : fnOutput[i].type = "file"
    /\ \A i, j \in 1..Len(fnOutput) :
         i < j => localeCompare(fnOutput[i].relativePath, fnOutput[j].relativePath) < 0
    /\ ItemPaths(fnOutput, "file") = Covered(fnInput.selectedItems, fnInput.allItems)

\* folder src was selected, src2 was not; the list holds src/a.ts and
\* src2/x.ts, and the output holds the first only
C16_Witness ==
  /\ fnOp = "expandFolderSelections"
  /\ ItemPaths(fnInput.selectedItems, "folder") = {<<"s","r","c">>}
  /\ ItemPaths(fnInput.selectedItems, "file") = {}
  /\ <<"s","r","c","2","/","x",".","t","s">> \in ItemPaths(fnInput.allItems, "file")
  /\ ItemPaths(fnOutput, "file") = {<<"s","r","c","/","a",".","t","s">>}

\* the content section of one file: the header naming the path, an empty
\* line, the opening fence with the language tag, the content, the closing
\* fence and an empty line
ExpectedSection(file) ==
  <<"#","#"," ","F","i","l","e",":"," ">> \o file.relativePath \o <<"\n", "\n">>
  \o <<Backtick, Backtick, Backtick>> \o getLanguageFromExtension(file.relativePath) \o <<"\n">>
  \o file.content \o <<"\n">>
  \o <<Backtick, Backtick, Backtick>> \o <<"\n">>

\* the sections of the first n files, in the order of the list
RECURSIVE ExpectedSections(_, _)
ExpectedSections(files, n) ==
  IF n = 0 THEN <<>>
  ELSE IF n = 1 THEN ExpectedSection(files[1])
  ELSE ExpectedSections(files, n - 1) \o <<"\n">> \o ExpectedSection(files[n])

\* C18: generateMarkdown returns the empty string for an empty list; for
\* a non-empty list the output is the Structure section, an empty line and
\* then one content section per file of the list, in the order of the
\* list, each made of header, opening fence with the language tag, the
\* content unchanged and the closing fence
C18_GenerateShape ==
  fnOp = "generateMarkdown" =>
    IF Len(fnInput) = 0 THEN fnOutput = <<>>
    ELSE /\ fnOutput = generateStructureSection(fnInput) \o <<"\n", "\n">>
                          \o ExpectedSections(fnInput, Len(fnInput))
         /\ SubSeq(fnOutput, 1, 13) = <<"#","#"," ","S","t","r","u","c","t","u","r","e","\n">>

\* generateMarkdown was called on three files that are not in the order of
\* their paths, one of them with content of several lines and one with no
\* language tag
C18_Witness ==
  /\ fnOp = "generateMarkdown"
  /\ Len(fnInput) = 3
  /\ localeCompare(fnInput[1].relativePath, fnInput[2].relativePath) > 0
  /\ \E i \in 1..3 : "\n" \in Range(fnInput[i].content)
  /\ \E i \in 1..3 : getLanguageFromExtension(fnInput[i].relativePath) = <<>>
  /\ fnOutput # <<>>

\* a string with its upper-case letters replaced by the lower-case ones
LowerOf(s) ==
  [i \in 1..Len(s) |->
     IF \E k \in 1..26 : Uppers[k] = s[i]
     THEN Lowers[CHOOSE k \in 1..26 : Uppers[k] = s[i]] ELSE s[i]]

\* the name of a path: what follows its last separator
NameOf(p) ==
  IF \E i \in 1..Len(p) : p[i] = "/"
  THEN SubSeq(p, (CHOOSE i \in 1..Len(p) : p[i] = "/" /\ \A j \in (i + 1)..Len(p) : p[j] # "/") + 1, Len(p))
  ELSE p

\* the extension of a name: from its last dot on, when that dot is not its
\* first character
ExtensionOf(n) ==
  IF \E i \in 2..Len(n) : n[i] = "."
  THEN SubSeq(n, CHOOSE i \in 2..Len(n) : n[i] = "." /\ \A j \in (i + 1)..Len(n) : n[j] # ".", Len(n))
  ELSE <<>>

\* the tag the claim gives a path
TagOf(p) ==
  IF LowerOf(NameOf(p)) = <<"d","o","c","k","e","r","f","i","l","e">> THEN <<"d","o","c","k","e","r","f","i","l","e">>
  ELSE IF LowerOf(NameOf(p)) = <<"m","a","k","e","f","i","l","e">> THEN <<"m","a","k","e","f","i","l","e">>
  ELSE IF LowerOf(ExtensionOf(NameOf(p))) \in DOMAIN EXTENSION_TO_LANGUAGE
  THEN EXTENSION_TO_LANGUAGE[LowerOf(ExtensionOf(NameOf(p)))]
  ELSE <<>>

\* C21: getLanguageFromExtension returns dockerfile or makefile for a path
\* whose basename is that word in any case, otherwise the table entry of
\* the lower-cased extension, and the empty tag when the table has none;
\* the content section of a file opens its fence with that tag, and with
\* nothing after the fence when the tag is empty
C21_LanguageTag ==
  /\ fnOp = "getLanguageFromExtension" => fnOutput = TagOf(fnInput)
  /\ (fnOp = "generateMarkdown" /\ Len(fnInput) = 1) =>
       LET p == fnInput[1].relativePath
           opening == <<"\n", "\n">> \o <<"#","#"," ","F","i","l","e",":"," ">> \o p
                      \o <<"\n", "\n", Backtick, Backtick, Backtick>> \o TagOf(p) \o <<"\n">>
           from == Len(generateStructureSection(fnInput))
       IN  /\ Len(fnOutput) >= from + Len(opening)
           /\ SubSeq(fnOutput, from + 1, from + Len(opening)) = opening

\* getLanguageFromExtension was called on a Dockerfile spelled with capitals
C21_Witness ==
  /\ fnOp = "getLanguageFromExtension"
  /\ NameOf(fnInput) # <<"d","o","c","k","e","r","f","i","l","e">>
  /\ LowerOf(NameOf(fnInput)) = <<"d","o","c","k","e","r","f","i","l","e">>
  /\ fnOutput = <<"d","o","c","k","e","r","f","i","l","e">>

\* the lines the Structure section has when one order, kind, is the lexical
\* order of both the directories and the basenames: the files of the root,
\* then every other directory with the files directly in it
ExpectedDirLines(kind, paths, d) ==
  LET names == SortSet(kind, {basename(q) : q \in {r \in paths : dirname(r) = d}})
  IN  <<<<"-"," ">> \o d \o <<"/">>>> \o [i \in 1..Len(names) |-> <<" "," ","-"," ">> \o names[i]]

RECURSIVE ExpectedDirs(_, _, _)
ExpectedDirs(kind, paths, dirs) ==
  IF dirs = <<>> THEN <<>>
  ELSE ExpectedDirLines(kind, paths, Head(dirs)) \o ExpectedDirs(kind, paths, Tail(dirs))

ExpectedStructureLines(kind, paths) ==
  LET rootNames == SortSet(kind, {basename(q) : q \in {r \in paths : dirname(r) = <<".">>}})
      dirs == SortSet(kind, {dirname(q) : q \in paths} \ {<<".">>})
  IN  <<<<"#","#"," ","S","t","r","u","c","t","u","r","e">>, <<>>>>
      \o [i \in 1..Len(rootNames) |-> <<"-"," ">> \o rootNames[i]]
      \o ExpectedDirs(kind, paths, dirs)

RECURSIVE LinesText(_)
LinesText(lines) ==
  IF lines = <<>> THEN <<>>
  ELSE IF Len(lines) = 1 THEN lines[1]
  ELSE lines[1] \o <<"\n">> \o LinesText(Tail(lines))

\* C19: for every non-empty input the Structure section lists the files of
\* the root first, then every other directory in lexical order of its path
\* with its basenames in lexical order, whatever the order of the input;
\* the lexical order is one order, that of localeCompare or that of the
\* code units
C19_StructureOrdered ==
  (fnOp = "generateMarkdown" /\ Len(fnInput) > 0) =>
    \E kind \in {"locale", "codeUnit"} :
      LET text == LinesText(ExpectedStructureLines(kind,
                    {fnInput[i].relativePath : i \in 1..Len(fnInput)}))
      IN  /\ Len(fnOutput) >= Len(text) + 2
          /\ SubSeq(fnOutput, 1, Len(text) + 2) = text \o <<"\n", "\n">>

\* the lines of a text
LinesOf(t) ==
  LET br == {0, Len(t) + 1} \cup {i \in 1..Len(t) : t[i] = "\n"}
      nth(k) == CHOOSE i \in br : Cardinality({j \in br : j < i}) = k - 1
  IN  [k \in 1..(Cardinality(br) - 1) |-> SubSeq(t, nth(k) + 1, nth(k + 1) - 1)]

\* the directory of a path: what precedes its last separator
DirOf(p) == SubSeq(p, 1, Len(p) - Len(NameOf(p)) - 1)

\* the lines of the Structure section of the output
StructureOf(out, files) == LinesOf(SubSeq(out, 1, Len(generateStructureSection(files))))

\* C24: in the Structure section a file directly in the workspace root is
\* a top-level bullet, every other file is a nested bullet below the line
\* of its own directory, whatever the name of that directory, and every
\* top-level bullet that is not a directory line is a file of the root
C24_RootFilesOnlyAtTopLevel ==
  (fnOp = "generateMarkdown" /\ Len(fnInput) > 0) =>
    LET lines == StructureOf(fnOutput, fnInput)
        paths == {fnInput[i].relativePath : i \in 1..Len(fnInput)}
        inRoot(p) == \A i \in 1..Len(p) : p[i] # "/"
        nested(l) == Len(l) >= 2 /\ SubSeq(l, 1, 2) = <<" ", " ">>
    IN  /\ \A p \in paths :
             IF inRoot(p)
             THEN \E k \in 1..Len(lines) : lines[k] = <<"-", " ">> \o p
             ELSE \E k \in 1..Len(lines) : \E j \in (k + 1)..Len(lines) :
                    /\ lines[k] = <<"-", " ">> \o DirOf(p) \o <<"/">>
                    /\ lines[j] = <<" ", " ", "-", " ">> \o NameOf(p)
                    /\ \A l \in (k + 1)..j : nested(lines[l])
        /\ \A k \in 3..Len(lines) :
             (~nested(lines[k]) /\ lines[k][Len(lines[k])] # "/") =>
               \E p \in paths : inRoot(p) /\ lines[k] = <<"-", " ">> \o p

(***************************************************************************)
(* Properties of the command with its page (SpecFlow)                      *)
(***************************************************************************)
\* the checkboxes of a fresh page after one click on the checkbox of f
ClickedFresh(f) ==
  handleCheckboxChange(doc,
                       [checked |-> [FreshBoxes(doc).checked EXCEPT ![f] = TRUE],
                        indeterminate |-> FreshBoxes(doc).indeterminate],
                       f)

\* the discovered files under a folder
FilesUnder(f) == {p \in found : startsWith(p, f \o <<sep>>)}

\* the positions of the markdown at which a content section header starts
FileHeader == <<"#","#"," ","F","i","l","e",":"," ">>
HeaderStarts(md) ==
  {i \in 1..Len(md) :
     /\ i = 1 \/ md[i - 1] = "\n"
     /\ i + Len(FileHeader) - 1 <= Len(md)
     /\ SubSeq(md, i, i + Len(FileHeader) - 1) = FileHeader}

\* the path a header names: the rest of its line
HeaderPath(md, i) ==
  LET from == i + Len(FileHeader)
      ends == {j \in from..Len(md) : md[j] = "\n"}
      to == IF ends = {} THEN Len(md)
            ELSE (CHOOSE j \in ends : \A k \in ends : j <= k) - 1
  IN  SubSeq(md, from, to)

\* C17: when the first message of the page is the export of a fresh picker
\* after one click on a folder, and that export settles the session, the
\* paths the picker resolves with
\* are exactly the discovered files under that folder, each once, and the
\* generated document has exactly one content section for each of them that
\* was read (all of them when no read fails) and none for another file
C17_FolderEndToEnd ==
  \A f \in FolderBoxes(doc) :
    (closedBy = "export" /\ posted # <<>>
       /\ posted[1] = ExportMessage(exportPaths(doc, ClickedFresh(f)))) =>
      /\ promise.value.kind = "paths"
      /\ Range(promise.value.paths) = FilesUnder(f)
      /\ Len(promise.value.paths) = Cardinality(FilesUnder(f))
      /\ pc # "pick" => selectedPaths = promise.value
      /\ (pc \in {"clipboard", "open", "show", "done"} /\ FilesUnder(f) \ unreadable # {}) =>
           /\ generateCalls # <<>>
           /\ {HeaderPath(markdown, i) : i \in HeaderStarts(markdown)}
                = FilesUnder(f) \ unreadable
           /\ Cardinality(HeaderStarts(markdown)) = Cardinality(FilesUnder(f) \ unreadable)

\* discovery found a root file and files in a folder and its sub-folder;
\* the folder was clicked on the fresh page and the document was displayed
\* with a section for each of its two files
C17_Witness ==
  /\ \E f \in FolderBoxes(doc) :
       /\ Boxes = ClickedFresh(f)
       /\ Cardinality(FilesUnder(f)) = 2
       /\ \E g \in FolderBoxes(doc) : doc.parent[g] = f
       /\ found \ FilesUnder(f) # {}
  /\ closedBy = "export"
  /\ unreadable = {}
  /\ Cardinality(HeaderStarts(markdown)) = 2
  /\ shown

(***************************************************************************)
(* Properties of the command with any export message (SpecForged)          *)
(***************************************************************************)
\* the files of a set of paths that were discovered and can be read, with
\* their contents, in the order of the discovered item list
InItemOrder(sel) ==
  LET at == {i \in 1..Len(allItems) :
               /\ allItems[i].type = "file"
               /\ allItems[i].relativePath \in (sel \cap found) \ unreadable}
      nth(k) == CHOOSE i \in at : Cardinality({j \in at : j <= i}) = k
  IN  [k \in 1..Cardinality(at) |->
         FileWithContent(allItems[nth(k)].relativePath,
                         fileContent(allItems[nth(k)].relativePath))]

\* the paths the content section headers of a document name, in the order
\* of the document
HeaderPaths(md) ==
  LET hs == HeaderStarts(md)
      nth(k) == CHOOSE i \in hs : Cardinality({j \in hs : j <= i}) = k
  IN  [k \in 1..Cardinality(hs) |-> HeaderPath(md, nth(k))]

\* C28: the document depends on the set of paths of the export message and
\* not on their order: the generator receives the selected files in the
\* order of the discovered item list, whose files are sorted by path, and
\* the content sections of the document follow that order
C28_DocumentFollowsItemOrder ==
  /\ \A i, j \in 1..Len(allItems) :
       (i < j /\ allItems[i].type = "file" /\ allItems[j].type = "file") =>
         localeCompare(fsPath(allItems[i].relativePath), fsPath(allItems[j].relativePath)) < 0
  /\ generateCalls # <<>> =>
       LET files == InItemOrder(Range(selectedPaths.paths))
       IN  /\ generateCalls = <<files>>
           /\ markdown = generateMarkdown(files)
           /\ HeaderPaths(markdown) = [k \in 1..Len(files) |-> files[k].relativePath]

\* the export message listed two discovered files in the opposite order of
\* the item list and the document was generated with both
C28_Witness ==
  /\ generateCalls # <<>>
  /\ selectedPaths.kind = "paths"
  /\ \E i, j \in 1..Len(selectedPaths.paths) :
       /\ i < j
       /\ selectedPaths.paths[i] \in found
       /\ selectedPaths.paths[j] \in found
       /\ PositionIn(allItems, selectedPaths.paths[i]) > PositionIn(allItems, selectedPaths.paths[j])
  /\ Len(generateCalls[1]) >= 2
  /\ pc = "done"

====
